---- MODULE Spec2Model ----
(***************************************************************************)
(* A model of the update pipeline of hikibiki-data: the IndexedDB store    *)
(* (JpdictStore.bulkUpdateTable), the update applier (update.ts), the      *)
(* download stream it reads, and the database facade (JpdictDatabase, and  *)
(* the older KanjiDatabase) that queues the series to update.              *)
(*                                                                         *)
(* One action of the model is one continuation of the JavaScript program:  *)
(* the code that runs from the point a suspended call is resumed (a        *)
(* network read, an IndexedDB request, a call by the client) to its next   *)
(* suspension.                                                             *)
(***************************************************************************)
EXTENDS Integers, Sequences, FiniteSets, TLC

(***************************************************************************)
(* Bounds of the model.                                                    *)
(***************************************************************************)
\* update() calls that start a new in-progress update
MaxTasks == 2
\* update() calls made while an update is in progress
MaxJoins == 1
\* cancelUpdate() calls
MaxCancels == 2
\* the patch level the upstream manifest announces (the snapshot is patch 0)
MaxPatch == 1
\* keys of a series table
MaxKey == 2
\* records written per batch (BATCH_SIZE, 4000 in store.ts, scaled down)
BatchSize == 1
\* records accumulated by the applier in the bulk-update specification
MaxPut == 2
\* updateWithRetry: the network failures in a row, the calls of the client,
\* the times the device goes offline, the db.update() promises pending at a time
MaxStreak == 16
MaxRetryCalls == 3
MaxOutages == 1
MaxLive == 2
\* the calls of the client where long runs of network failures are looked at
MaxStreakCalls == 2
\* the network failures in a row where a forced update is looked at
MaxForceStreak == 2
\* cancelUpdateWithRetry() calls
MaxRetryCancels == 1
\* db.destroy() calls
MaxDestroys == 1
\* the open(), close() and destroy() calls on a JpdictStore
MaxStoreCalls == 3
\* the updates where destroy() of the facade is looked at
MaxFacadeTasks == 1
\* the versions of the store and of the manifest that download() is given
MaxMajor == 2
MaxMinor == 1
MaxFilePatch == 2
\* the calls of setPreferredLang
MaxLangCalls == 1
\* the events of the stream handed to one update() call
MaxEvents == 4
\* the getKanji() calls made while the radicals are updated
MaxLookups == 2
\* the radical numbers, and the variant ids of one kanji record
MaxRadical == 2
MaxVar == 2
\* the records of the names table
MaxNames == 3

(***************************************************************************)
(* Data                                                                    *)
(***************************************************************************)
DataSeries == {"kanji", "radicals", "names"}

MAJOR_VERSION(series) ==
  CASE series = "kanji" -> 3
    [] series = "radicals" -> 3
    [] series = "names" -> 1

Keys == 1..MaxKey
\* "no record under this key"
Absent == -1
\* the payload of a record: the patch level of the file that carried it
Payloads == 0..MaxPatch
EmptyTable == [k \in Keys |-> Absent]

\* "no version record" (null); every real version has major >= 1
NullVersion == [major |-> 0, minor |-> 0, patch |-> 0]
Version(series, p) == [major |-> MAJOR_VERSION(series), minor |-> 0, patch |-> p]

Tasks == 1..MaxTasks

\* Array.prototype.includes
Includes(arr, x) == \E i \in 1..Len(arr) : arr[i] = x

(***************************************************************************)
(* The upstream data: the version manifest and the data files.  Every      *)
(* series has a full snapshot at patch 0 and the patches 1..MaxPatch.      *)
(***************************************************************************)
\* manifest[series][MAJOR_VERSION]: {major, minor, patch, snapshot}
VersionInfo(series) ==
  [major |-> MAJOR_VERSION(series), minor |-> 0, patch |-> MaxPatch, snapshot |-> 0]

\* the snapshot holds one record per key
FullEntries == [k \in Keys |-> [key |-> k, val |-> 0]]
\* patch p replaces the record of one key and deletes another
PatchPutKey(p) == (p % MaxKey) + 1
PatchDelKey(p) == ((p - 1) % MaxKey) + 1

Event(type, key, val) == [type |-> type, key |-> key, val |-> val, partial |-> FALSE]
VersionEvent(p, fileType) ==
  [type |-> "version", key |-> 0, val |-> p, partial |-> (fileType = "patch")]

\* The events of one data file: its header, then one event per record.
FileEvents(p, fileType) ==
  IF fileType = "full"
  THEN <<VersionEvent(p, fileType)>>
         \o [i \in 1..Len(FullEntries) |->
               Event("entry", FullEntries[i].key, FullEntries[i].val)]
  ELSE <<VersionEvent(p, fileType),
         Event("entry", PatchPutKey(p), p),
         Event("deletion", PatchDelKey(p), 0)>>

\* The end of a data file as the applier sees it.
FileWithEnd(p, fileType) == FileEvents(p, fileType) \o <<Event("versionend", 0, p)>>

compareVersions(a, b) ==
  IF a.major < b.major THEN -1
  ELSE IF a.major > b.major THEN 1
  ELSE IF a.minor < b.minor THEN -1
  ELSE IF a.minor > b.minor THEN 1
  ELSE IF a.patch < b.patch THEN -1
  ELSE IF a.patch > b.patch THEN 1
  ELSE 0

RECURSIVE PatchEvents(_, _)
PatchEvents(currentPatch, last) ==
  IF currentPatch < last
  THEN FileWithEnd(currentPatch + 1, "patch") \o PatchEvents(currentPatch + 1, last)
  ELSE <<>>

\* download(): the events the stream will deliver for a series, given the
\* version the caller has.
DownloadEvents(series, currentVersion) ==
  LET versionInfo == VersionInfo(series) IN
  IF \/ currentVersion = NullVersion
     \/ compareVersions(currentVersion,
                        [major |-> versionInfo.major, minor |-> versionInfo.minor,
                         patch |-> 0]) < 0
  THEN FileWithEnd(versionInfo.snapshot, "full")
         \o PatchEvents(versionInfo.snapshot, versionInfo.patch)
  ELSE PatchEvents(currentVersion.patch, versionInfo.patch)

(***************************************************************************)
(* The store (JpdictStore).  Readers see the committed tables and version  *)
(* records only; bulkUpdateTable works inside one readwrite transaction    *)
(* over the series table and the version table.                            *)
(***************************************************************************)
\* deletes the first id only
DeleteFirst(tab, drop) ==
  IF drop = <<>> THEN tab ELSE [tab EXCEPT ![Head(drop)] = Absent]

RECURSIVE DeleteAll(_, _)
\* targetTable.delete(id) for each id of drop
DeleteAll(tab, drop) ==
  IF drop = <<>> THEN tab
  ELSE DeleteAll([tab EXCEPT ![Head(drop)] = Absent], Tail(drop))

RECURSIVE PutAll(_, _)
\* targetTable.put(record) for each record of the batch, in order
PutAll(tab, batch) ==
  IF batch = <<>> THEN tab
  ELSE PutAll([tab EXCEPT ![Head(batch).key] = Head(batch).val], Tail(batch))

\* put.splice(0, BATCH_SIZE): the batch taken, and what is left
Batch(put) == SubSeq(put, 1, IF Len(put) < BatchSize THEN Len(put) ELSE BatchSize)
AfterBatch(put) == SubSeq(put, Len(Batch(put)) + 1, Len(put))

NoTx ==
  [owner |-> 0, phase |-> "none", table |-> "kanji", put |-> <<>>, drop |-> <<>>,
   dropAll |-> FALSE, version |-> NullVersion,
   wtable |-> EmptyTable, wversion |-> NullVersion, header |-> NullVersion]

(***************************************************************************)
(* State                                                                   *)
(***************************************************************************)
VARIABLES
  \* which facade this database is: "JpdictDatabase" or "KanjiDatabase"
  facade,
  \* JpdictStore (IndexedDB): the committed series tables and version table
  table, version,
  \* the readwrite transaction of the running bulkUpdateTable call
  tx,
  \* update.ts: the task whose reader is registered for the store, 0 if none
  inProgressUpdates,
  \* the download stream of each task's current series
  stream,
  \* update(): recordsToPut, recordsToDelete, currentVersion, partialVersion
  applier,
  \* JpdictDatabase: dataVersion, inProgressUpdate, updateQueue
  dataVersion, inProgressUpdate, updateQueue,
  \* the arrays this.updateQueue has pointed to, one per update started
  arrays,
  \* the async function started by each update() call that found none running
  task, nTasks,
  \* the microtask queue: the tasks whose next continuation is queued, oldest
  \* first
  micro,
  \* history: the update() calls made, the calls counted, the streams requested,
  \* the header of the last file committed per series, the last bulk update
  calls, nJoins, nCancels, fetches, lastFile, lastBulk,
  \* JpdictDatabase.updateState
  updateState,
  \* updateWithRetry: inProgressUpdates.get(db); the pending timers, idle
  \* callbacks and listeners of the online event; navigator.onLine
  retryStatus, timers, idleCallbacks, listeners, online,
  \* the db.update() promises pending, db.inProgressUpdate, the forced
  \* updateWithRetry calls that await cancelUpdateWithRetry
  attempts, dbCurrent, forcing,
  \* history: the callbacks made and the calls counted
  log,
  \* preferredLang; the language of each update and of the version record of
  \* each series, stored and cached; the setPreferredLang call in progress
  lang,
  \* JpdictStore: state, db, openPromise and deletePromise; the requests made
  \* to the engine; the open(), close() and destroy() calls
  store,
  \* one call of download(): its arguments, where it is, the files requested
  dl,
  \* the read side of the facade: the cached radical maps, the lookup in
  \* progress with its arguments, locals and result
  lookup

retryVars ==
  <<retryStatus, timers, idleCallbacks, listeners, online, attempts, dbCurrent,
    forcing, log>>

dbVars ==
  <<facade, table, version, tx, inProgressUpdates, stream, applier, dataVersion,
    inProgressUpdate, updateQueue, arrays, task, nTasks, micro, calls, nJoins,
    fetches, lastFile, lastBulk>>

vars ==
  <<lookup, dl, store, lang, retryVars, updateState, facade, table, version, tx, inProgressUpdates, stream, applier, dataVersion,
    inProgressUpdate, updateQueue, arrays, task, nTasks, micro, calls, nJoins,
    nCancels, fetches, lastFile, lastBulk>>

\* A download stream: the events the consumer has not read yet, of which the
\* first `avail` are enqueued; the data files requested so far, and how many
\* had been requested when the stream was cancelled.
NoStream ==
  [state |-> "none", events |-> <<>>, avail |-> 0, requested |-> 0, atCancel |-> 0]
\* "no date" (null), and the value of new Date() at the start of the doUpdate
\* the task t makes for the series at index i of its queue
NoDate == [task |-> 0, idx |-> 0]
CheckDate(t, i) == [task |-> t, idx |-> i]

IdleState == [state |-> "idle", lastCheck |-> NoDate]

\* an UpdateAction: finish, error (JpdictDatabase) and abort carry a checkDate,
\* the error action of KanjiDatabase carries the error
Action(type, checkDate) == [type |-> type, checkDate |-> checkDate]

\* updateReducer(state, action)
reducer(state, action) ==
  CASE action.type = "start" -> [state EXCEPT !.state = "checking"]
    [] action.type = "startdownload" -> [state EXCEPT !.state = "downloading"]
    [] action.type = "finishdownload" -> [state EXCEPT !.state = "updatingdb"]
    [] action.type = "finishpatch" -> state
    [] action.type = "finish" -> [state |-> "idle", lastCheck |-> action.checkDate]
    [] action.type \in {"error", "abort"} ->
         [state |-> "idle", lastCheck |-> action.checkDate]
    \* the error action of KanjiDatabase, which has no checkDate: the states
    \* are idle, checking, downloading and updatingdb
    [] action.type = "errorstate" -> [state EXCEPT !.state = "idle"]

NewApplier ==
  [recordsToPut |-> <<>>, recordsToDelete |-> <<>>,
   currentVersion |-> NullVersion, partialVersion |-> FALSE]
NewTask ==
  [pc |-> "idle", iter |-> 0, idx |-> 0, series |-> "none",
   wroteSomething |-> FALSE, outcome |-> "pending",
   \* history of the task
   cancelled |-> FALSE, startedAfterCancel |-> FALSE, okSeries |-> {},
   overlap |-> FALSE, startVersion |-> NullVersion, committedSince |-> FALSE,
   header |-> NullVersion, checkDate |-> NoDate, committed |-> FALSE,
   \* what the task was doing when its reader was cancelled, and the version
   \* record of its series then
   cancelledIn |-> "none", cancelVersion |-> NullVersion]
NoBulk ==
  [table |-> "kanji", base |-> EmptyTable, put |-> <<>>, drop |-> <<>>,
   dropAll |-> FALSE, committed |-> FALSE,
   \* the series of which a full file has been committed since the table
   \* was last cleared
   full |-> {}]

\* updateWithRetry: the values of its state
\* the first retry interval is 3000 + Math.random() * 3000 ms
MinIntervalMs == 3000
IntervalSpreadMs == 3000
\* "Don't let the interval become longer than 12 hours"
MaxIntervalMs == 12 * 60 * 60 * 1000
InitialIntervals == {MinIntervalMs, MinIntervalMs + IntervalSpreadMs - 1}
\* currentRetryStatus.retryCount < 2
ConstraintRetryLimit == 2

Min(a, b) == IF a < b THEN a ELSE b

\* how db.update() can settle: resolved, or rejected with a DownloadError of
\* the network class or of the protocol class, with a ConstraintError, or
\* with another error (AbortError, overlapping calls, ...).  A cancelled
\* update finds this.inProgressUpdate unset at its next check and throws an
\* AbortError, unless a later db.update() has set the field again, or the
\* download or the write it waits for fails first.
Outcomes == {"ok", "NetworkError", "ProtocolError", "ConstraintError", "OtherError"}
IsDownloadError(e) == e \in {"NetworkError", "ProtocolError"}

\* the slots of the db.update() promises not settled yet
Slots == 1..MaxLive
NoAttempt ==
  [pc |-> "none", phase |-> "idle", cancelled |-> FALSE, waiters |-> 0,
   \* a downloaded file has been written to the store
   applied |-> FALSE]

\* RetryStatus; undefined is 0 for a handle, a callback and the interval,
\* and -1 for retryCount
NoStatus ==
  [present |-> FALSE, onlineCallback |-> 0, setTimeoutHandle |-> 0,
   requestIdleCallbackHandle |-> 0, retryIntervalMs |-> 0, retryCount |-> -1]

NoError == [name |-> "none", delay |-> 0, retryCount |-> -1]

\* what the last step did: the promise that settled, the calls of
\* onUpdateError and onUpdateComplete, the retries scheduled, the db.update()
\* calls made
NoStep ==
  [settled |-> "none", cancelled |-> FALSE, waiters |-> 0, wasPresent |-> FALSE,
   errors |-> 0, lastError |-> NoError, completes |-> 0, retries |-> 0,
   updates |-> 0, wasOffline |-> FALSE, wasWaiting |-> FALSE,
   \* the update that settled had written a file
   applied |-> FALSE]

NoLog ==
  [step |-> NoStep,
   \* network failures handled in a row, ConstraintError retries in a row
   streak |-> 0, constraintRetries |-> 0,
   nRetryCalls |-> 0, nOutages |-> 0,
   \* cancelUpdateWithRetry has been called and updateWithRetry has not been
   \* called since
   cancelled |-> FALSE,
   \* db.destroy() has been called with a retry scheduled and no update
   \* running, and updateWithRetry has not been called since
   destroyed |-> FALSE, nDestroys |-> 0]

\* the languages of the data files
Langs == {"en", "fr"}
NoLang == "none"

NoLanguages ==
  [preferred |-> NoLang,
   task |-> [t \in Tasks |-> NoLang],
   stored |-> [s \in DataSeries |-> NoLang],
   data |-> [s \in DataSeries |-> NoLang],
   setter |-> [pc |-> "idle", lang |-> NoLang, hadUpdate |-> FALSE],
   calls |-> 0]

\* a call on the store: the operation, where it waits and for which request
\* of the engine, how it settled and with which handle; the open() calls in
\* progress when it was made; what destroy() left
NoStoreCall ==
  [op |-> "none", pc |-> "none", on |-> 0, outcome |-> "none", result |-> 0,
   peers |-> {}, endState |-> "none", endVersion |-> FALSE,
   \* the error the call was rejected with
   error |-> "none"]

\* new JpdictStore()
NoStore ==
  [state |-> "idle", db |-> 0, openPromise |-> 0, deletePromise |-> 0,
   \* the openDB and deleteDB requests, and the calls that await each
   opens |-> <<>>, deletes |-> <<>>,
   \* the database holds version records
   hasVersion |-> FALSE,
   call |-> [c \in 1..MaxStoreCalls |-> NoStoreCall], nCalls |-> 0,
   micro |-> <<>>,
   \* the stores the facade has destroyed and replaced, and the updates that
   \* had not settled when the last one was replaced
   generation |-> 0, inFlight |-> {}]

\* download() has not been called
\* no lookup is in progress and nothing is cached
NoLookup == [pc |-> "none"]

NoDownload ==
  [currentVersion |-> NullVersion,
   versionInfo |-> [major |-> 0, minor |-> 0, patch |-> 0, snapshot |-> 0],
   pc |-> "none", currentPatch |-> 0, error |-> "none",
   requested |-> <<>>, stored |-> NullVersion]

InitRetry ==
  /\ retryStatus = NoStatus
  /\ timers = {}
  /\ idleCallbacks = {}
  /\ listeners = {}
  /\ online = TRUE
  /\ attempts = [a \in Slots |-> NoAttempt]
  /\ dbCurrent = 0
  /\ forcing = 0
  /\ log = NoLog

InitDatabase(f) ==
  /\ facade = f
  /\ table = [s \in DataSeries |-> EmptyTable]
  /\ version = [s \in DataSeries |-> NullVersion]
  /\ tx = NoTx
  /\ inProgressUpdates = 0
  /\ stream = [t \in Tasks |-> NoStream]
  /\ applier = [t \in Tasks |-> NewApplier]
  /\ dataVersion = [s \in DataSeries |-> NullVersion]
  /\ inProgressUpdate = 0
  /\ updateQueue = 0
  /\ arrays = [t \in Tasks |-> <<>>]
  /\ task = [t \in Tasks |-> NewTask]
  /\ nTasks = 0
  /\ micro = <<>>
  /\ calls = {}
  /\ nJoins = 0
  /\ nCancels = 0
  /\ fetches = [t \in Tasks |-> [s \in DataSeries |-> 0]]
  /\ lastFile = [s \in DataSeries |-> NullVersion]
  /\ lastBulk = NoBulk
  /\ updateState = IdleState
  /\ InitRetry
  /\ lang = NoLanguages
  /\ store = NoStore

Init == InitDatabase("JpdictDatabase") /\ dl = NoDownload /\ lookup = NoLookup

\* the array an iterator or this.updateQueue points to (0: a fresh empty array)
ArrayOf(id) == IF id = 0 THEN <<>> ELSE arrays[id]

\* A continuation runs as a microtask when what it awaits is already there:
\* this.ready of the constructed database and getDbLang(), which reads
\* this.dataVersion; the stream download() returned; a read that
\* reader.cancel() or controller.error() has settled.  Microtasks run in the
\* order they were queued.  Network reads and IndexedDB requests complete in
\* later tasks of the event loop, when the microtask queue is empty.
Runs(t) == micro # <<>> /\ Head(micro) = t
\* setPreferredLang goes on in a microtask: after getDbLang(), and from one
\* series to the next when there is nothing to clear
SetterPending ==
  \/ lang.setter.pc = "check"
  \/ /\ lang.setter.pc \in {"kanji", "radicals"}
     /\ dataVersion[lang.setter.pc] = NullVersion
     /\ ~lang.setter.hadUpdate

Quiet == micro = <<>> /\ ~SetterPending

\* the queue holds exactly the tasks whose continuation is queued, each once
MicrotaskQueueExact ==
  \A t \in Tasks :
    LET queued == \/ task[t].pc \in {"starting", "download"}
                  \/ task[t].pc = "reading" /\ stream[t].state # "open"
    IN Cardinality({i \in 1..Len(micro) : micro[i] = t}) = IF queued THEN 1 ELSE 0

(***************************************************************************)
(* JpdictDatabase.update and doUpdate                                      *)
(***************************************************************************)
\* The finally clause of update(), and the promise settling with `out`.
Settle(t, tk, out, q, us) ==
  /\ task' = [task EXCEPT ![t] = [tk EXCEPT !.pc = "done", !.outcome = out]]
  /\ updateState' = us
  /\ micro' = q
  /\ inProgressUpdate' = 0
  /\ updateQueue' = 0
  /\ UNCHANGED <<stream, fetches>>

\* an update() of update.ts is running for the task's series
InFlight(t) == task[t].pc \in {"reading", "tx"}

\* doUpdate(series) up to `await download(...)`.
BeginDoUpdate(t, tk, i, series, q, us) ==
  IF inProgressUpdate = 0
  THEN \* cancelled while waiting: reducer(error), throw AbortError
       Settle(t, [tk EXCEPT !.idx = i, !.series = series, !.wroteSomething = FALSE,
                            !.committed = FALSE,
                            !.startVersion = version[series],
                            !.committedSince = FALSE], "AbortError", q,
              reducer(us, Action(IF facade = "KanjiDatabase" THEN "abort" ELSE "error",
                                 NoDate)))
  ELSE /\ updateState' = reducer(us, Action("start", NoDate))
       /\ task' = [task EXCEPT ![t] =
            [tk EXCEPT !.pc = "download", !.idx = i, !.series = series,
                       !.wroteSomething = FALSE,
                       !.startedAfterCancel = (@ \/ tk.cancelled),
                       !.overlap = (@ \/ \E u \in Tasks \ {t} : InFlight(u)),
                       !.startVersion = version[series],
                       !.committedSince = FALSE, !.header = NullVersion,
                       !.checkDate = CheckDate(t, i), !.committed = FALSE,
                       !.cancelledIn = "none"]]
       /\ stream' = [stream EXCEPT ![t] =
            [state |-> "open", events |-> DownloadEvents(series, dataVersion[series]),
             avail |-> 0, requested |-> 0, atCancel |-> 0]]
       /\ fetches' = [fetches EXCEPT ![t][series] = @ + 1]
       /\ micro' = Append(q, t)
       /\ UNCHANGED <<inProgressUpdate, updateQueue>>

\* The for-of loop over the queue asks for element i of the array it iterates.
LoopNext(t, tk, i, q, us) ==
  LET arr == ArrayOf(tk.iter) IN
  IF i <= Len(arr)
  THEN BeginDoUpdate(t, tk, i, arr[i], q, us)
  ELSE \* the loop is over: "Check if we were canceled"
       IF inProgressUpdate = 0
       THEN Settle(t, [tk EXCEPT !.series = "none"], "AbortError", q, us)
       ELSE Settle(t, tk, "resolved", q, us)

\* the action doUpdate's catch clause sends: "We should only update the
\* last-check date if we actually made some sort of update."
ErrorActionAlways(tk, err) == Action("error", tk.checkDate)

ErrorAction(tk, err) ==
  IF facade = "KanjiDatabase" /\ err # "AbortError"
  THEN Action("errorstate", NoDate)
  ELSE Action(IF facade = "KanjiDatabase" THEN "abort" ELSE "error",
              IF tk.wroteSomething THEN tk.checkDate ELSE NoDate)

\* update() threw inside doUpdate: reducer(error), rethrow, finally.
UpdateThrew(t, err, q) ==
  Settle(t, task[t], err, q, reducer(updateState, ErrorAction(task[t], err)))

\* update() returned normally to doUpdate.
UpdateReturned(t, q) ==
  IF inProgressUpdate = 0
  THEN UpdateThrew(t, "AbortError", q)
  ELSE \* reducer(finish); back in the loop of update()
       LoopNext(t, [task[t] EXCEPT !.okSeries = @ \cup {task[t].series}],
                task[t].idx + 1, q,
                reducer(updateState, Action("finish", task[t].checkDate)))

Requests == {<<"kanji">>, <<"names">>}

\* "If we update kanji, we should update the radicals too."
ToUpdate(seriesToUpdate) ==
  IF Includes(seriesToUpdate, "kanji") /\ ~Includes(seriesToUpdate, "radicals")
  THEN Append(seriesToUpdate, "radicals")
  ELSE seriesToUpdate

RECURSIVE PushAll(_, _)
\* appends the items without looking for them in the queue
PushAll(queue, toUpdate) ==
  IF toUpdate = <<>> THEN queue
  ELSE PushAll(Append(queue, Head(toUpdate)), Tail(toUpdate))

\* leaves the queue as it is
PushNone(queue, toUpdate) == queue

RECURSIVE PushMissing(_, _)
\* "Append any items not already in the queue."
PushMissing(queue, toUpdate) ==
  IF toUpdate = <<>> THEN queue
  ELSE PushMissing(IF Includes(queue, Head(toUpdate)) THEN queue
                   ELSE Append(queue, Head(toUpdate)),
                   Tail(toUpdate))

\* update() while an update is in progress: re-use the existing update.
UpdateJoin(seriesToUpdate) ==
  /\ facade = "JpdictDatabase"
  /\ inProgressUpdate # 0
  /\ nJoins < MaxJoins
  /\ nJoins' = nJoins + 1
  /\ arrays' = IF updateQueue = 0 THEN arrays
               ELSE [arrays EXCEPT ![updateQueue] =
                       PushMissing(@, ToUpdate(seriesToUpdate))]
  /\ calls' = calls \cup {[got |-> inProgressUpdate, inflight |-> inProgressUpdate,
                           req |-> ToUpdate(seriesToUpdate),
                           sameTick |-> (task[inProgressUpdate].pc = "starting")]}
  /\ UNCHANGED <<dl, lookup, store, lang, retryVars, updateState, facade, table, version, tx, inProgressUpdates, stream, applier, dataVersion,
                 inProgressUpdate, updateQueue, task, nTasks, micro, nCancels, fetches,
                 lastFile, lastBulk>>

\* update() with no update in progress: start one, up to `await this.ready`.
UpdateNew(seriesToUpdate) ==
  /\ facade = "JpdictDatabase"
  /\ inProgressUpdate = 0
  /\ nTasks < MaxTasks
  /\ nTasks' = nTasks + 1
  /\ arrays' = [arrays EXCEPT ![nTasks + 1] = ToUpdate(seriesToUpdate)]
  /\ updateQueue' = nTasks + 1
  /\ inProgressUpdate' = nTasks + 1
  /\ task' = [task EXCEPT ![nTasks + 1].pc = "starting"]
  /\ micro' = Append(micro, nTasks + 1)
  /\ calls' = calls \cup {[got |-> nTasks + 1, inflight |-> 0,
                           req |-> ToUpdate(seriesToUpdate), sameTick |-> FALSE]}
  /\ UNCHANGED <<dl, lookup, store, lang, retryVars, updateState, facade, table, version, tx, inProgressUpdates, stream, applier, dataVersion,
                 nJoins, nCancels, fetches, lastFile, lastBulk>>

\* KanjiDatabase.update(): no series to choose, no queue; the async function
\* runs doUpdate for kanjidb and then for bushudb (the "kanji" and "radicals"
\* series here).
KanjiUpdate ==
  /\ facade = "KanjiDatabase"
  /\ IF inProgressUpdate # 0
     THEN /\ nJoins < MaxJoins
          /\ nJoins' = nJoins + 1
          /\ calls' = calls \cup {[got |-> inProgressUpdate,
                                   inflight |-> inProgressUpdate,
                                   req |-> <<"kanji", "radicals">>,
                                   sameTick |-> (task[inProgressUpdate].pc = "starting")]}
          /\ UNCHANGED <<arrays, inProgressUpdate, task, nTasks, micro>>
     ELSE /\ nTasks < MaxTasks
          /\ nTasks' = nTasks + 1
          /\ arrays' = [arrays EXCEPT ![nTasks + 1] = <<"kanji", "radicals">>]
          /\ inProgressUpdate' = nTasks + 1
          /\ task' = [task EXCEPT ![nTasks + 1].pc = "starting"]
          /\ micro' = Append(micro, nTasks + 1)
          /\ calls' = calls \cup {[got |-> nTasks + 1, inflight |-> 0,
                                   req |-> <<"kanji", "radicals">>, sameTick |-> FALSE]}
          /\ UNCHANGED nJoins
  /\ UNCHANGED <<dl, lookup, store, lang, retryVars, updateState, facade, table, version, tx, inProgressUpdates, stream, applier,
                 dataVersion, updateQueue, nCancels, fetches, lastFile, lastBulk>>

\* The async body of update() resumes after `await this.ready` and getDbLang():
\* it starts iterating this.updateQueue (KanjiDatabase: its two doUpdate calls).
\* getDbLang(): the language of the kanji data, else of the radicals data
getDbLang ==
  IF dataVersion["kanji"] # NullVersion THEN lang.data["kanji"]
  ELSE IF dataVersion["radicals"] # NullVersion THEN lang.data["radicals"]
  ELSE NoLang

TaskStart(t) ==
  /\ Runs(t)
  /\ task[t].pc = "starting"
  \* const lang = this.preferredLang || (await this.getDbLang()) || 'en'
  /\ lang' = [lang EXCEPT !.task[t] = IF lang.preferred # NoLang THEN lang.preferred
                                      ELSE IF getDbLang # NoLang THEN getDbLang
                                      ELSE "en"]
  /\ LoopNext(t, [task[t] EXCEPT !.iter = IF facade = "KanjiDatabase" THEN t
                                           ELSE updateQueue], 1, Tail(micro),
              updateState)
  /\ UNCHANGED <<dl, lookup, store, retryVars, facade, table, version, tx, inProgressUpdates, applier, dataVersion, arrays,
                 nTasks, calls, nJoins, nCancels, lastFile, lastBulk>>

(***************************************************************************)
(* update() of update.ts                                                   *)
(***************************************************************************)
\* doUpdate resumes after `await download(...)` and calls update(), which
\* runs up to its first `await reader.read()`.
Download(t) ==
  /\ Runs(t)
  /\ task[t].pc = "download"
  /\ IF inProgressUpdate = 0
     THEN /\ UpdateThrew(t, "AbortError", Tail(micro))
          /\ UNCHANGED <<inProgressUpdates, applier>>
     ELSE IF inProgressUpdates # 0
     THEN /\ UpdateThrew(t, "OverlapError", Tail(micro))
          /\ UNCHANGED <<inProgressUpdates, applier>>
     ELSE /\ inProgressUpdates' = t
          /\ applier' = [applier EXCEPT ![t] = NewApplier]
          /\ task' = [task EXCEPT ![t].pc = "reading"]
          /\ micro' = Tail(micro)
          /\ UNCHANGED <<stream, fetches, inProgressUpdate, updateQueue, updateState>>
  /\ UNCHANGED <<dl, lookup, store, lang, retryVars, facade, table, version, tx, dataVersion, arrays, nTasks, calls, nJoins,
                 nCancels, lastFile, lastBulk>>

\* the index in events of the end of the file that starts after the first n
EndOfFile(events, n) ==
  CHOOSE i \in (n + 1)..Len(events) :
    /\ events[i].type = "versionend"
    /\ \A j \in (n + 1)..(i - 1) : events[j].type # "versionend"

\* start() of a stream whose fetches are not given the abort signal and which
\* does not test it before it enqueues.
ArriveUnsignalled(t) ==
  /\ Quiet
  /\ stream[t].state \in {"open", "cancelled"}
  /\ stream[t].avail < Len(stream[t].events)
  /\ stream' =
       IF stream[t].requested = 0
       THEN [stream EXCEPT ![t].requested = 1]
       ELSE LET end == EndOfFile(stream[t].events, stream[t].avail) IN
            [stream EXCEPT ![t].avail = end,
                           ![t].requested =
                              IF end < Len(stream[t].events) THEN @ + 1 ELSE @]
  /\ UNCHANGED <<dl, lookup, store, lang, retryVars, updateState, facade, table, version, tx, inProgressUpdates, applier, dataVersion,
                 inProgressUpdate, updateQueue, arrays, task, nTasks, micro, calls,
                 nJoins, nCancels, fetches, lastFile, lastBulk>>

\* start() of the stream resumes with the response it awaited: the version
\* file, after which it requests the first data file, or a data file, whose
\* events it enqueues before it requests the next one.
Arrive(t) ==
  /\ Quiet
  /\ stream[t].state = "open"
  /\ stream[t].avail < Len(stream[t].events)
  /\ stream' =
       IF stream[t].requested = 0
       THEN [stream EXCEPT ![t].requested = 1]
       ELSE LET end == EndOfFile(stream[t].events, stream[t].avail) IN
            [stream EXCEPT ![t].avail = end,
                           ![t].requested =
                              IF end < Len(stream[t].events) THEN @ + 1 ELSE @]
  /\ UNCHANGED <<dl, lookup, store, lang, retryVars, updateState, facade, table, version, tx, inProgressUpdates, applier, dataVersion,
                 inProgressUpdate, updateQueue, arrays, task, nTasks, micro, calls,
                 nJoins, nCancels, fetches, lastFile, lastBulk>>

\* The network fails: getVersionInfo or getEvents throws, controller.error(e).
StreamError(t) ==
  /\ Quiet
  /\ task[t].pc \in {"reading", "tx"}
  /\ stream[t].state = "open"
  /\ stream[t].events # <<>>
  /\ stream' = [stream EXCEPT ![t].state = "errored", ![t].events = <<>>,
                              ![t].avail = 0]
  /\ micro' = IF task[t].pc = "reading" THEN Append(micro, t) ELSE micro
  /\ UNCHANGED <<dl, lookup, store, lang, retryVars, updateState, facade, table, version, tx, inProgressUpdates, applier, dataVersion,
                 inProgressUpdate, updateQueue, arrays, task, nTasks, calls,
                 nJoins, nCancels, fetches, lastFile, lastBulk>>

\* reader.read() rejects.
ReadError(t) ==
  /\ Runs(t)
  /\ task[t].pc = "reading"
  /\ stream[t].state = "errored"
  /\ inProgressUpdates' = 0
  /\ UpdateThrew(t, "DownloadError", Tail(micro))
  /\ UNCHANGED <<dl, lookup, store, lang, retryVars, facade, table, version, tx, applier, dataVersion, arrays, nTasks, calls,
                 nJoins, nCancels, lastFile, lastBulk>>

\* reader.read() resolves with done: the stream was closed or cancelled.
ReadDone(t) ==
  /\ task[t].pc = "reading"
  /\ \/ stream[t].state = "cancelled" /\ Runs(t)
     \/ stream[t].state = "open" /\ stream[t].events = <<>> /\ Quiet
  /\ inProgressUpdates' = 0
  /\ LET q == IF Quiet THEN micro ELSE Tail(micro) IN
     IF inProgressUpdates # 0 /\ applier[t].currentVersion # NullVersion
     THEN UpdateThrew(t, "Unfinished", q)
     ELSE UpdateReturned(t, q)
  /\ UNCHANGED <<dl, lookup, store, lang, retryVars, facade, table, version, tx, applier, dataVersion, arrays, nTasks, calls,
                 nJoins, nCancels, lastFile, lastBulk>>

\* reader.read() resolves with a version, entry or deletion event.
ReadEvent(t) ==
  /\ Quiet
  /\ task[t].pc = "reading"
  /\ stream[t].state = "open"
  /\ stream[t].avail > 0
  /\ LET value == Head(stream[t].events)
         rest == [stream EXCEPT ![t].events = Tail(@), ![t].avail = @ - 1]
     IN
     /\ value.type # "versionend"
     /\ IF value.type = "version" /\ applier[t].currentVersion # NullVersion
        THEN /\ inProgressUpdates' = 0
             /\ UpdateThrew(t, "Unfinished", micro)
             /\ UNCHANGED applier
        ELSE /\ stream' = rest
             /\ applier' = [applier EXCEPT ![t] =
                  CASE value.type = "version" ->
                         [@ EXCEPT !.currentVersion = Version(task[t].series, value.val),
                                   !.partialVersion = value.partial]
                    [] value.type = "entry" ->
                         [@ EXCEPT !.recordsToPut =
                            Append(@, [key |-> value.key, val |-> value.val])]
                    [] value.type = "deletion" ->
                         [@ EXCEPT !.recordsToDelete = Append(@, value.key)]]
             /\ task' = [task EXCEPT ![t].header =
                  IF value.type = "version"
                  THEN Version(task[t].series, value.val) ELSE @]
             /\ updateState' = IF value.type = "version"
                                THEN reducer(updateState, Action("startdownload", NoDate))
                                ELSE updateState
             /\ UNCHANGED <<inProgressUpdates, inProgressUpdate, updateQueue, fetches,
                            micro>>
  /\ UNCHANGED <<dl, lookup, store, lang, retryVars, facade, table, version, tx, dataVersion, arrays, nTasks, calls, nJoins,
                 nCancels, lastFile, lastBulk>>

\* callback(finishdownload) as the reducer of doUpdate handles it:
\* KanjiDatabase.doUpdate sets wroteSomething and calls updateDbVersion
OnFinishDownload(t, version_) ==
  IF facade = "KanjiDatabase"
  THEN [wroteSomething |-> TRUE,
        dataVersion |-> [dataVersion EXCEPT ![task[t].series] = version_]]
  ELSE [wroteSomething |-> task[t].wroteSomething, dataVersion |-> dataVersion]

\* callback(finishpatch) as the reducer of doUpdate handles it:
\* JpdictDatabase.doUpdate sets wroteSomething and calls updateDataVersion
OnFinishPatch(t, version_) ==
  IF facade = "JpdictDatabase"
  THEN [wroteSomething |-> TRUE,
        dataVersion |-> [dataVersion EXCEPT ![task[t].series] = version_]]
  ELSE [wroteSomething |-> task[t].wroteSomething, dataVersion |-> dataVersion]

\* the version record is written with its patch number one too high
BulkUpdateArgsNextPatch(series, a) ==
  [table |-> series, put |-> a.recordsToPut,
   drop |-> IF a.partialVersion THEN a.recordsToDelete ELSE <<>>,
   dropAll |-> ~a.partialVersion,
   version |-> [a.currentVersion EXCEPT !.patch = @ + 1]]

\* finishCurrentVersion()'s arguments to store.bulkUpdateTable
BulkUpdateArgs(series, a) ==
  [table |-> series, put |-> a.recordsToPut,
   drop |-> IF a.partialVersion THEN a.recordsToDelete ELSE <<>>,
   dropAll |-> ~a.partialVersion,
   version |-> a.currentVersion]

\* reader.read() resolves with versionend: finishCurrentVersion() calls
\* callback(finishdownload) and bulkUpdateTable, which opens its transaction
\* once the transactions before it on the version table are over.
ReadVersionEnd(t) ==
  /\ Quiet
  /\ task[t].pc = "reading"
  /\ stream[t].state = "open"
  /\ stream[t].avail > 0
  /\ Head(stream[t].events).type = "versionend"
  /\ tx.owner = 0
  /\ stream' = [stream EXCEPT ![t].events = Tail(@), ![t].avail = @ - 1]
  /\ lang' = IF applier[t].currentVersion # NullVersion /\ facade = "KanjiDatabase"
             THEN [lang EXCEPT !.data[task[t].series] = lang.task[t]]
             ELSE lang
  /\ IF applier[t].currentVersion = NullVersion
     THEN UNCHANGED <<tx, task, lastBulk, dataVersion, updateState>>
     ELSE LET args == BulkUpdateArgs(task[t].series, applier[t])
              reduced == OnFinishDownload(t, applier[t].currentVersion)
          IN
          /\ dataVersion' = reduced.dataVersion
          /\ updateState' = reducer(updateState, Action("finishdownload", NoDate))
          /\ tx' = [owner |-> t, phase |-> "drop", table |-> args.table,
                    put |-> args.put, drop |-> args.drop, dropAll |-> args.dropAll,
                    version |-> args.version,
                    wtable |-> table[args.table], wversion |-> version[args.table],
                    header |-> task[t].header]
          /\ task' = [task EXCEPT ![t].pc = "tx",
                                  ![t].wroteSomething = reduced.wroteSomething]
          /\ lastBulk' = [table |-> args.table, base |-> table[args.table],
                          put |-> args.put, drop |-> args.drop,
                          dropAll |-> args.dropAll, committed |-> FALSE,
                          full |-> lastBulk.full]
  /\ UNCHANGED <<dl, lookup, store, retryVars, facade, table, version, inProgressUpdates, applier,
                 inProgressUpdate, updateQueue, arrays, nTasks, micro, calls, nJoins,
                 nCancels, fetches, lastFile>>

(***************************************************************************)
(* JpdictStore.bulkUpdateTable: one readwrite transaction on the series    *)
(* table and the version table                                             *)
(***************************************************************************)
\* drop: clear the table ('*') or delete each id
TxDrop ==
  /\ Quiet
  /\ tx.phase = "drop"
  /\ tx' = [tx EXCEPT !.phase = "put",
                      !.wtable = IF tx.dropAll THEN EmptyTable
                                 ELSE DeleteAll(tx.wtable, tx.drop)]
  /\ UNCHANGED <<dl, lookup, store, lang, retryVars, updateState, facade, table, version, inProgressUpdates, stream, applier, dataVersion,
                 inProgressUpdate, updateQueue, arrays, task, nTasks, micro, calls,
                 nJoins, nCancels, fetches, lastFile, lastBulk>>

\* each batch written straight to the table readers see
TxPutAutocommit ==
  /\ Quiet
  /\ tx.phase = "put"
  /\ tx.put # <<>>
  /\ tx' = [tx EXCEPT !.put = AfterBatch(tx.put),
                      !.wtable = PutAll(tx.wtable, Batch(tx.put))]
  /\ table' = [table EXCEPT ![tx.table] = PutAll(tx.wtable, Batch(tx.put))]
  /\ UNCHANGED <<dl, lookup, store, lang, retryVars, updateState, facade, version, inProgressUpdates, stream, applier, dataVersion,
                 inProgressUpdate, updateQueue, arrays, task, nTasks, micro, calls,
                 nJoins, nCancels, fetches, lastFile, lastBulk>>

\* put: one batch of put.splice(0, BATCH_SIZE)
TxPut ==
  /\ Quiet
  /\ tx.phase = "put"
  /\ tx.put # <<>>
  /\ tx' = [tx EXCEPT !.put = AfterBatch(tx.put),
                      !.wtable = PutAll(tx.wtable, Batch(tx.put))]
  /\ UNCHANGED <<dl, lookup, store, lang, retryVars, updateState, facade, table, version, inProgressUpdates, stream, applier, dataVersion,
                 inProgressUpdate, updateQueue, arrays, task, nTasks, micro, calls,
                 nJoins, nCancels, fetches, lastFile, lastBulk>>

\* the version record is put once the batches are written
TxVersion ==
  /\ Quiet
  /\ tx.phase = "put"
  /\ tx.put = <<>>
  /\ tx' = [tx EXCEPT !.phase = "commit", !.wversion = tx.version]
  /\ UNCHANGED <<dl, lookup, store, lang, retryVars, updateState, facade, table, version, inProgressUpdates, stream, applier, dataVersion,
                 inProgressUpdate, updateQueue, arrays, task, nTasks, micro, calls,
                 nJoins, nCancels, fetches, lastFile, lastBulk>>

\* `await tx.done` resolves: the writes are visible; finishCurrentVersion
\* clears its buffers, calls callback(finishpatch) and update() reads on.
TxCommit ==
  /\ Quiet
  /\ tx.phase = "commit"
  /\ LET t == tx.owner IN
     /\ table' = [table EXCEPT ![tx.table] = tx.wtable]
     /\ version' = [version EXCEPT ![tx.table] = tx.wversion]
     \* currentVersion = { ...version, lang }
     /\ lang' = [lang EXCEPT !.stored[tx.table] = lang.task[t],
                             !.data[tx.table] = IF facade = "JpdictDatabase"
                                                THEN lang.task[t] ELSE @]
     /\ tx' = NoTx
     /\ applier' = [applier EXCEPT ![t] = NewApplier]
     /\ dataVersion' = OnFinishPatch(t, applier[t].currentVersion).dataVersion
     /\ task' = [u \in Tasks |->
          LET seen == IF task[u].series = tx.table /\ task[u].pc # "done"
                      THEN [task[u] EXCEPT !.committedSince = TRUE] ELSE task[u]
          IN IF u = t
             THEN [seen EXCEPT !.pc = "reading", !.committed = TRUE,
                     !.wroteSomething =
                        OnFinishPatch(t, applier[t].currentVersion).wroteSomething]
             ELSE seen]
     /\ updateState' = reducer(updateState, Action("finishpatch", NoDate))
     /\ lastFile' = [lastFile EXCEPT ![tx.table] = tx.header]
     /\ lastBulk' = [lastBulk EXCEPT !.committed = TRUE,
                        !.full = IF tx.dropAll THEN @ \cup {tx.table} ELSE @]
     \* the next reader.read() is settled at once on a cancelled or errored stream
     /\ micro' = IF stream[t].state = "open" THEN micro ELSE Append(micro, t)
  /\ UNCHANGED <<dl, lookup, store, retryVars, facade, inProgressUpdates, stream, inProgressUpdate, updateQueue,
                 arrays, nTasks, calls, nJoins, nCancels, fetches>>

\* the failed transaction's writes stay
TxFailDirty ==
  /\ Quiet
  /\ tx.owner # 0
  /\ tx' = NoTx
  /\ table' = [table EXCEPT ![tx.table] = tx.wtable]
  /\ version' = [version EXCEPT ![tx.table] = tx.wversion]
  /\ inProgressUpdates' = 0
  /\ UpdateThrew(tx.owner, "StorageError", micro)
  /\ UNCHANGED <<dl, lookup, store, lang, retryVars, facade, applier, dataVersion, arrays, nTasks, calls, nJoins,
                 nCancels, lastFile, lastBulk>>

\* A request or the commit fails: the transaction aborts, bulkUpdateTable
\* and finishCurrentVersion rethrow, update() unregisters its reader.
TxFail ==
  /\ Quiet
  /\ tx.owner # 0
  /\ tx' = NoTx
  /\ inProgressUpdates' = 0
  /\ UpdateThrew(tx.owner, "StorageError", micro)
  /\ UNCHANGED <<dl, lookup, store, lang, retryVars, facade, table, version, applier, dataVersion, arrays, nTasks, calls, nJoins,
                 nCancels, lastFile, lastBulk>>

(***************************************************************************)
(* JpdictDatabase.cancelUpdate and cancelUpdate(store) of update.ts        *)
(***************************************************************************)
CancelUpdate ==
  /\ nTasks > 0
  /\ nCancels < MaxCancels
  /\ nCancels' = nCancels + 1
  /\ inProgressUpdate' = 0
  /\ updateQueue' = 0
  /\ inProgressUpdates' = 0
  /\ stream' = IF inProgressUpdates # 0 /\ stream[inProgressUpdates].state = "open"
               THEN [stream EXCEPT ![inProgressUpdates] =
                       [@ EXCEPT !.state = "cancelled",
                                 !.events = SubSeq(@, stream[inProgressUpdates].avail + 1,
                                                   Len(@)),
                                 !.avail = 0, !.atCancel = stream[inProgressUpdates].requested]]
               ELSE stream
  \* reader.cancel() settles the pending read
  /\ micro' = IF /\ inProgressUpdates # 0
                 /\ stream[inProgressUpdates].state = "open"
                 /\ task[inProgressUpdates].pc = "reading"
              THEN Append(micro, inProgressUpdates) ELSE micro
  /\ task' = [t \in Tasks |->
                IF t \in {inProgressUpdate, inProgressUpdates} /\ task[t].pc # "done"
                THEN IF t = inProgressUpdates /\ stream[t].state = "open"
                     THEN [task[t] EXCEPT !.cancelled = TRUE,
                             !.cancelledIn = IF task[t].pc = "tx" THEN "apply"
                                             ELSE "download",
                             !.cancelVersion = version[task[t].series]]
                     ELSE [task[t] EXCEPT !.cancelled = TRUE]
                ELSE task[t]]
  /\ UNCHANGED <<dl, lookup, store, retryVars, updateState, facade, table, version, tx, applier, dataVersion, arrays, nTasks, calls,
                 nJoins, fetches, lastFile, lastBulk>>

Next ==
  \/ \E req \in Requests : UpdateNew(req)
  \/ \E req \in Requests : UpdateJoin(req)
  \/ CancelUpdate /\ UNCHANGED lang
  \/ \E t \in Tasks : TaskStart(t)
  \/ \E t \in Tasks : Download(t)
  \/ \E t \in Tasks : Arrive(t)
  \/ \E t \in Tasks : StreamError(t)
  \/ \E t \in Tasks : ReadError(t)
  \/ \E t \in Tasks : ReadDone(t)
  \/ \E t \in Tasks : ReadEvent(t)
  \/ \E t \in Tasks : ReadVersionEnd(t)
  \/ TxDrop
  \/ TxPut
  \/ TxVersion
  \/ TxCommit
  \/ TxFail

Spec == Init /\ [][Next]_vars

(***************************************************************************)
(* The same store and applier under the KanjiDatabase facade               *)
(***************************************************************************)
InitKanji == InitDatabase("KanjiDatabase") /\ dl = NoDownload /\ lookup = NoLookup

NextKanji ==
  \/ KanjiUpdate
  \/ CancelUpdate /\ UNCHANGED lang
  \/ \E t \in Tasks : TaskStart(t)
  \/ \E t \in Tasks : Download(t)
  \/ \E t \in Tasks : Arrive(t)
  \/ \E t \in Tasks : StreamError(t)
  \/ \E t \in Tasks : ReadError(t)
  \/ \E t \in Tasks : ReadDone(t)
  \/ \E t \in Tasks : ReadEvent(t)
  \/ \E t \in Tasks : ReadVersionEnd(t)
  \/ TxDrop
  \/ TxPut
  \/ TxVersion
  \/ TxCommit
  \/ TxFail

SpecKanji == InitKanji /\ [][NextKanji]_vars

(***************************************************************************)
(* One file applied to any table: update() has read a file's records and   *)
(* reads its versionend                                                    *)
(***************************************************************************)
Records == [key : Keys, val : Payloads]

\* sequences over S of length at most n
SeqUpTo(S, n) == UNION {[1..m -> S] : m \in 0..n}

InitBulk ==
  \E base \in [Keys -> Payloads \cup {Absent}],
     recordsToPut \in SeqUpTo(Records, MaxPut),
     recordsToDelete \in SeqUpTo(Keys, MaxPut),
     partialVersion \in BOOLEAN :
    /\ partialVersion \/ recordsToDelete = <<>>
    /\ facade = "JpdictDatabase"
    /\ table = [s \in DataSeries |-> IF s = "kanji" THEN base ELSE EmptyTable]
    /\ version = [s \in DataSeries |->
                    IF s = "kanji" THEN Version(s, 0) ELSE NullVersion]
    /\ tx = NoTx
    /\ inProgressUpdates = 1
    /\ stream = [t \in Tasks |->
                   IF t = 1
                   THEN [state |-> "open",
                         events |-> <<Event("versionend", 0, MaxPatch)>>,
                         avail |-> 1, requested |-> 1, atCancel |-> 0]
                   ELSE NoStream]
    /\ applier = [t \in Tasks |->
                    IF t = 1
                    THEN [recordsToPut |-> recordsToPut,
                          recordsToDelete |-> recordsToDelete,
                          currentVersion |-> Version("kanji", MaxPatch),
                          partialVersion |-> partialVersion]
                    ELSE NewApplier]
    /\ dataVersion = version
    /\ inProgressUpdate = 1
    /\ updateQueue = 1
    /\ arrays = [t \in Tasks |-> IF t = 1 THEN <<"kanji">> ELSE <<>>]
    /\ task = [t \in Tasks |->
                 IF t = 1
                 THEN [NewTask EXCEPT !.pc = "reading", !.iter = 1, !.idx = 1,
                                      !.series = "kanji",
                                      !.startVersion = Version("kanji", 0),
                                      !.header = Version("kanji", MaxPatch),
                                      !.checkDate = CheckDate(1, 1)]
                 ELSE NewTask]
    /\ updateState = [state |-> "downloading", lastCheck |-> NoDate]
    /\ InitRetry
    /\ lang = NoLanguages
    /\ store = NoStore
    /\ dl = NoDownload /\ lookup = NoLookup
    /\ nTasks = 1
    /\ micro = <<>>
    /\ calls = {[got |-> 1, inflight |-> 0, req |-> <<"kanji">>, sameTick |-> FALSE]}
    /\ nJoins = 0
    /\ nCancels = 0
    /\ fetches = [t \in Tasks |-> [s \in DataSeries |->
                    IF t = 1 /\ s = "kanji" THEN 1 ELSE 0]]
    /\ lastFile = version
    /\ lastBulk = NoBulk

NextBulk ==
  \/ ReadVersionEnd(1)
  \/ TxDrop
  \/ TxPut
  \/ TxVersion
  \/ TxCommit
  \/ TxFail

SpecBulk == InitBulk /\ [][NextBulk]_vars

(***************************************************************************)
(* JpdictDatabase.setPreferredLang                                         *)
(***************************************************************************)
\* setPreferredLang(lang), up to `await this.getDbLang()`
SetPreferredLang(l) ==
  /\ facade = "JpdictDatabase"
  /\ lang.setter.pc \in {"idle", "done"}
  /\ lang.calls < MaxLangCalls
  /\ lang.preferred # l
  /\ lang' = [lang EXCEPT !.preferred = l, !.calls = @ + 1,
                          !.setter = [pc |-> "check", lang |-> l,
                                      hadUpdate |-> FALSE]]
  /\ UNCHANGED <<dl, lookup, store, retryVars, updateState, nCancels, dbVars>>

\* the update in flight is left to run
SetLangCheckKeepsUpdate ==
  /\ lang.setter.pc = "check"
  /\ lang' = [lang EXCEPT !.setter.pc = IF lang.setter.lang = getDbLang
                                       THEN "done" ELSE "kanji"]
  /\ UNCHANGED <<dl, lookup, store, retryVars, updateState, nCancels, dbVars>>

\* setPreferredLang after getDbLang(): "Check if the language actually
\* matches the language we already have", else `await this.cancelUpdate()`
SetLangCheck ==
  /\ lang.setter.pc = "check"
  /\ IF lang.setter.lang = getDbLang
     THEN /\ lang' = [lang EXCEPT !.setter.pc = "done"]
          /\ UNCHANGED <<dl, lookup, store, retryVars, updateState, nCancels, dbVars>>
     ELSE \* hadUpdate: what cancelUpdate(store) returns
          /\ lang' = [lang EXCEPT !.setter.pc = "kanji",
                                  !.setter.hadUpdate = inProgressUpdates # 0]
          /\ IF nTasks > 0 THEN CancelUpdate
             ELSE UNCHANGED <<dl, lookup, store, retryVars, updateState, nCancels, dbVars>>

\* "Clobber any data for which there is data for the newly-set language":
\* kanji, then radicals.  The new language is one upstream has (hasLanguage);
\* clearTable is a transaction of the store, which starts after the pending
\* one.
SetLangClear ==
  /\ lang.setter.pc \in {"kanji", "radicals"}
  /\ LET series == lang.setter.pc
         next == IF series = "kanji" THEN "radicals" ELSE "done"
     IN IF dataVersion[series] = NullVersion /\ ~lang.setter.hadUpdate
        THEN /\ lang' = [lang EXCEPT !.setter.pc = next]
             /\ UNCHANGED <<table, version, dataVersion, lastFile, lastBulk>>
        ELSE /\ Quiet
             /\ tx.owner = 0
             /\ table' = [table EXCEPT ![series] = EmptyTable]
             /\ version' = [version EXCEPT ![series] = NullVersion]
             /\ dataVersion' = [dataVersion EXCEPT ![series] = NullVersion]
             /\ lastFile' = [lastFile EXCEPT ![series] = NullVersion]
             /\ lastBulk' = [lastBulk EXCEPT !.full = @ \ {series}]
             /\ lang' = [lang EXCEPT !.setter.pc = next,
                                     !.stored[series] = NoLang,
                                     !.data[series] = NoLang]
  /\ UNCHANGED <<dl, lookup, store, retryVars, updateState, nCancels, facade, tx, inProgressUpdates,
                 stream, applier, inProgressUpdate, updateQueue, arrays, task,
                 nTasks, micro, calls, nJoins, fetches>>

\* The client changes the language and calls update() once setPreferredLang
\* has returned.
NextLang ==
  \/ /\ lang.setter.pc \in {"idle", "done"}
     /\ UpdateNew(<<"kanji">>)
  \/ \E l \in Langs : SetPreferredLang(l)
  \/ SetLangCheck
  \/ SetLangClear
  \/ \E t \in Tasks : TaskStart(t)
  \/ \E t \in Tasks : Download(t)
  \/ \E t \in Tasks : Arrive(t)
  \/ \E t \in Tasks : StreamError(t)
  \/ \E t \in Tasks : ReadError(t)
  \/ \E t \in Tasks : ReadDone(t)
  \/ \E t \in Tasks : ReadEvent(t)
  \/ \E t \in Tasks : ReadVersionEnd(t)
  \/ TxDrop
  \/ TxPut
  \/ TxVersion
  \/ TxCommit
  \/ TxFail

SpecLang == Init /\ [][NextLang]_vars

(***************************************************************************)
(* updateWithRetry: the retry controller around db.update().  The database *)
(* is seen through what the controller uses of it: the promise of          *)
(* db.update(), db.cancelUpdate(), db.updateState.state and the change     *)
(* notifications.                                                          *)
(***************************************************************************)
\* the state the functions of the module work on
Controller ==
  [status |-> retryStatus, timers |-> timers, idle |-> idleCallbacks,
   listeners |-> listeners, attempts |-> attempts, current |-> dbCurrent,
   log |-> [log EXCEPT !.step = NoStep]]

Becomes(s) ==
  /\ retryStatus' = s.status
  /\ timers' = s.timers
  /\ idleCallbacks' = s.idle
  /\ listeners' = s.listeners
  /\ attempts' = s.attempts
  /\ dbCurrent' = s.current
  /\ log' = s.log

\* a handle or callback not in use
NewHandle(s) ==
  LET used == s.timers \cup s.idle \cup s.listeners
                \cup {s.status.onlineCallback, s.status.setTimeoutHandle,
                      s.status.requestIdleCallbackHandle}
  IN CHOOSE h \in 1..(Cardinality(used) + 1) :
       h \notin used /\ \A g \in 1..(h - 1) : g \in used

\* setInProgressUpdate(db, {...})
setInProgressUpdate(onlineCallback, setTimeoutHandle, requestIdleCallbackHandle, retryIntervalMs, retryCount) ==
  [present |-> TRUE, onlineCallback |-> onlineCallback,
   setTimeoutHandle |-> setTimeoutHandle,
   requestIdleCallbackHandle |-> requestIdleCallbackHandle,
   retryIntervalMs |-> retryIntervalMs, retryCount |-> retryCount]

\* onUpdateError({error, nextRetry, retryCount})
onUpdateError(s, name, delay, retryCount) ==
  [s EXCEPT !.log.step.errors = @ + 1,
            !.log.step.lastError = [name |-> name, delay |-> delay,
                                    retryCount |-> retryCount]]

\* db.update(): "Re-using existing update", or a new update
dbUpdate(s) ==
  IF s.current # 0
  THEN [s EXCEPT !.attempts[s.current].waiters = @ + 1]
  ELSE LET a == CHOOSE a \in Slots :
                  /\ s.attempts[a].pc = "none"
                  /\ \A b \in 1..(a - 1) : s.attempts[b].pc # "none"
       IN [s EXCEPT !.attempts[a] = [NoAttempt EXCEPT !.pc = "running", !.waiters = 1,
                                                      !.phase = "called"],
                    !.current = a]

\* doUpdate() up to `await db.update()`
doUpdate(s, isOnline) ==
  IF ~isOnline
  THEN LET onlineCallback == NewHandle(s) IN
       onUpdateError(
         [s EXCEPT !.listeners = @ \cup {onlineCallback},
                   !.status = setInProgressUpdate(onlineCallback, 0, 0, 0, -1),
                   !.log.step.wasOffline = TRUE,
                   !.log.streak = 0, !.log.constraintRetries = 0],
         "OfflineError", 0, -1)
  ELSE dbUpdate([s EXCEPT !.status = IF @.present THEN @
                                     ELSE setInProgressUpdate(0, 0, 0, 0, -1),
                          !.log.step.updates = @ + 1])

\* doUpdate can call db.update() within the bounds
CanUpdate(s) == s.current # 0 \/ \E a \in Slots : s.attempts[a].pc = "none"

\* the retry goes on doubling without the 12 hour limit
NextIntervalUncapped(retryIntervalMs, initial) ==
  IF retryIntervalMs # 0 THEN retryIntervalMs * 2 ELSE initial

\* the interval of the next retry
NextInterval(retryIntervalMs, initial) ==
  IF retryIntervalMs # 0 THEN Min(retryIntervalMs * 2, MaxIntervalMs) ELSE initial

\* doUpdate() after `await db.update()`: the success path and the catch clause
afterUpdate(s, e, initial) ==
  IF e = "ok"
  THEN [s EXCEPT !.status = NoStatus, !.log.step.completes = @ + 1,
                 !.log.streak = 0, !.log.constraintRetries = 0]
  ELSE
    LET currentRetryStatus == s.status
        \* e instanceof DownloadError
        isNetworkError == IsDownloadError(e)
        wasCanceled == ~currentRetryStatus.present
        retryCount == IF currentRetryStatus.retryCount >= 0
                      THEN currentRetryStatus.retryCount + 1 ELSE 0
        handle == NewHandle(s)
    IN
    IF isNetworkError /\ ~wasCanceled
    THEN LET retryIntervalMs ==
               NextInterval(currentRetryStatus.retryIntervalMs, initial)
         IN onUpdateError(
              [s EXCEPT !.timers = @ \cup {handle},
                        !.status = setInProgressUpdate(0, handle, 0, retryIntervalMs,
                                                       retryCount),
                        !.log.step.retries = @ + 1,
                        !.log.streak = @ + 1, !.log.constraintRetries = 0],
              e, retryIntervalMs, retryCount)
    ELSE IF /\ e = "ConstraintError"
            /\ \/ ~currentRetryStatus.present
               \/ currentRetryStatus.retryCount <= 0
               \/ currentRetryStatus.retryCount < ConstraintRetryLimit
    THEN \* suppressError
         [s EXCEPT !.idle = @ \cup {handle},
                   !.status = setInProgressUpdate(0, 0, handle, 0, retryCount),
                   !.log.step.retries = @ + 1,
                   !.log.streak = 0, !.log.constraintRetries = @ + 1]
    ELSE onUpdateError(
           [s EXCEPT !.status = NoStatus,
                     !.log.streak = 0, !.log.constraintRetries = 0],
           e, 0, -1)

RECURSIVE afterUpdateAll(_, _, _, _)
\* every call that awaits the promise goes on, one after the other
afterUpdateAll(s, e, initial, waiters) ==
  IF waiters = 0 THEN s
  ELSE afterUpdateAll(afterUpdate(s, e, initial), e, initial, waiters - 1)

\* onDatabaseChange(db, 'stateupdated'): "If we successfully downloaded
\* *something*, reset the retry interval."
onDatabaseChange(s, state) ==
  IF s.status.present /\ s.status.retryIntervalMs # 0 /\ state = "updatingdb"
  THEN [s EXCEPT !.status.retryIntervalMs = 0, !.status.retryCount = -1]
  ELSE s

\* cancelUpdateWithRetry(db), with db.cancelUpdate()
cancelUpdateWithRetry(s) ==
  IF ~s.status.present THEN s
  ELSE [s EXCEPT !.timers = @ \ {s.status.setTimeoutHandle},
                 !.idle = @ \ {s.status.requestIdleCallbackHandle},
                 !.listeners = @ \ {s.status.onlineCallback},
                 !.status = NoStatus,
                 !.attempts = [a \in Slots |->
                                 IF a = s.current
                                 THEN [s.attempts[a] EXCEPT !.cancelled = TRUE]
                                 ELSE s.attempts[a]],
                 !.current = 0,
                 !.log.streak = 0, !.log.constraintRetries = 0]

\* updateWithRetry({db, forceUpdate}), up to its first await
UpdateWithRetry(forceUpdate) ==
  /\ log.nRetryCalls < MaxRetryCalls
  /\ LET s == [Controller EXCEPT !.log.nRetryCalls = @ + 1,
                                 !.log.cancelled = FALSE,
                                 !.log.destroyed = FALSE] IN
     IF s.status.present
     THEN IF \/ ~forceUpdate
             \/ s.status.onlineCallback # 0
             \/ s.status.retryIntervalMs = 0
          THEN Becomes(s) /\ UNCHANGED forcing
          ELSE IF updateState.state # "idle"
          THEN \* "just let it run but reset the timeout"
               /\ Becomes([s EXCEPT !.status.retryIntervalMs = 0,
                                    !.status.retryCount = -1,
                                    !.log.streak = 0])
               /\ UNCHANGED forcing
          ELSE /\ Becomes(cancelUpdateWithRetry(s))
               /\ forcing' = forcing + 1
     ELSE /\ online => CanUpdate(s)
          /\ Becomes(doUpdate(s, online))
          /\ UNCHANGED forcing
  /\ UNCHANGED <<online, updateState, nCancels, dbVars, lang, store, dl, lookup>>

\* updateWithRetry goes on after `await cancelUpdateWithRetry(db)`
ForcedUpdate ==
  /\ forcing > 0
  /\ forcing' = forcing - 1
  /\ IF retryStatus.present
     THEN \* "Skipping overlapping auto-retry request."
          Becomes(Controller)
     ELSE /\ online => CanUpdate(Controller)
          /\ Becomes(doUpdate([Controller EXCEPT !.log.cancelled = FALSE,
                                                 !.log.destroyed = FALSE],
                              online))
  /\ UNCHANGED <<online, updateState, nCancels, dbVars, lang, store, dl, lookup>>

\* the client calls cancelUpdateWithRetry(db)
CancelUpdateWithRetry ==
  /\ nCancels < MaxRetryCancels
  /\ nCancels' = nCancels + 1
  /\ Becomes([cancelUpdateWithRetry(Controller) EXCEPT !.log.cancelled = TRUE])
  /\ UNCHANGED <<online, forcing, updateState, dbVars, lang, store, dl, lookup>>

\* doUpdate() called from a timer or an idle callback.  The database is
\* ready (an update has failed before), so a new db.update() goes on to the
\* 'start' of its first series in the microtasks of the same task, before
\* any other task runs.
RetryRuns(s) ==
  /\ online => CanUpdate(s)
  /\ LET called == doUpdate(s, online)
         isNew == online /\ s.current = 0
     IN /\ updateState' = IF isNew
                          THEN reducer(updateState, Action("start", NoDate))
                          ELSE updateState
        /\ Becomes(IF isNew
                   THEN [called EXCEPT !.attempts[called.current].phase = "checking"]
                   ELSE called)

\* the timer of a retry fires
TimerFires(h) ==
  /\ h \in timers
  /\ RetryRuns([Controller EXCEPT !.timers = @ \ {h}])
  /\ UNCHANGED <<online, forcing, nCancels, dbVars, lang, store, dl, lookup>>

\* the idle callback of a retry runs
IdleCallbackRuns(h) ==
  /\ h \in idleCallbacks
  /\ RetryRuns([Controller EXCEPT !.idle = @ \ {h}])
  /\ UNCHANGED <<online, forcing, nCancels, dbVars, lang, store, dl, lookup>>

GoOffline ==
  /\ online
  /\ log.nOutages < MaxOutages
  /\ online' = FALSE
  /\ Becomes([Controller EXCEPT !.log.nOutages = @ + 1])
  /\ UNCHANGED <<forcing, updateState, nCancels, dbVars, lang, store, dl, lookup>>

RECURSIVE onlineCallbacks(_, _)
\* each listener of the online event (once: true) calls doUpdate
onlineCallbacks(s, n) ==
  IF n = 0 THEN s ELSE onlineCallbacks(doUpdate(s, TRUE), n - 1)

\* the online event is dispatched
GoOnline ==
  /\ ~online
  /\ online' = TRUE
  /\ listeners # {} => CanUpdate(Controller)
  /\ Becomes(onlineCallbacks([Controller EXCEPT !.listeners = {},
                                                !.log.step.wasWaiting = listeners # {}],
                             Cardinality(listeners)))
  /\ UNCHANGED <<forcing, updateState, nCancels, dbVars, lang, store, dl, lookup>>

\* The update of the database goes on: start, finishdownload or finish of a
\* series; the change listener of the controller is notified.
DbAdvance(a) ==
  /\ attempts[a].pc = "running"
  \* if (!this.inProgressUpdate) throw new AbortError()
  /\ attempts[a].cancelled => dbCurrent # 0
  /\ LET phase == CASE attempts[a].phase \in {"called", "idle"} -> "checking"
                    [] attempts[a].phase = "checking" -> "updatingdb"
                    [] attempts[a].phase = "updatingdb" -> "idle"
         action == CASE phase = "checking" -> Action("start", NoDate)
                     [] phase = "updatingdb" -> Action("finishdownload", NoDate)
                     [] phase = "idle" -> Action("finish", NoDate)
         state == reducer(updateState, action)
     IN
     /\ updateState' = state
     /\ Becomes(onDatabaseChange(
          [Controller EXCEPT !.attempts[a].phase = phase,
                             !.attempts[a].applied =
                               @ \/ attempts[a].phase = "updatingdb",
                             !.log.streak = IF phase = "updatingdb" THEN 0 ELSE @],
          state.state))
  /\ UNCHANGED <<online, forcing, nCancels, dbVars, lang, store, dl, lookup>>

\* The promise of db.update() settles, and each doUpdate that awaits it goes on.
DbSettles(a, e, initial) ==
  /\ attempts[a].pc = "running"
  /\ e = "ok" => attempts[a].phase = "idle"
  /\ IsDownloadError(e) => /\ attempts[a].phase \in {"checking", "updatingdb"}
                            /\ log.streak < MaxStreak
  /\ e = "ConstraintError" => attempts[a].phase = "updatingdb"
  /\ updateState' =
       IF e = "ok" THEN updateState
       ELSE reducer(updateState,
                    ErrorAction(NewTask, IF attempts[a].cancelled /\ e = "OtherError"
                                         THEN "AbortError" ELSE e))
  /\ Becomes(afterUpdateAll(
       \* finally: this.inProgressUpdate = undefined; notifyChanged
       onDatabaseChange(
         [Controller EXCEPT !.attempts[a] = NoAttempt,
                            !.current = 0,
                            !.log.step.settled = e,
                            !.log.step.cancelled = attempts[a].cancelled,
                            !.log.step.waiters = attempts[a].waiters,
                            !.log.step.applied = attempts[a].applied,
                            !.log.step.wasPresent = retryStatus.present],
         updateState'.state),
       e, initial, attempts[a].waiters))
  /\ UNCHANGED <<online, forcing, nCancels, dbVars, lang, store, dl, lookup>>

NextRetry ==
  \/ \E forceUpdate \in BOOLEAN :
       log.nRetryCalls < MaxStreakCalls /\ UpdateWithRetry(forceUpdate)
  \/ ForcedUpdate
  \/ CancelUpdateWithRetry
  \/ \E h \in timers : TimerFires(h)
  \/ \E h \in idleCallbacks : IdleCallbackRuns(h)
  \/ GoOffline
  \/ GoOnline
  \/ \E a \in Slots : DbAdvance(a)
  \/ \E a \in Slots, e \in Outcomes, initial \in InitialIntervals :
       DbSettles(a, e, initial)

SpecRetry == InitKanji /\ [][NextRetry]_vars

\* A series that is up to date finishes with nothing downloaded: 'finish'
\* follows 'start', and the update state is idle before the next series
\* starts or the promise resolves.
DbUpToDate(a) ==
  /\ attempts[a].pc = "running"
  /\ attempts[a].phase = "checking"
  /\ attempts[a].cancelled => dbCurrent # 0
  /\ LET state == reducer(updateState, Action("finish", NoDate)) IN
     /\ updateState' = state
     /\ Becomes(onDatabaseChange([Controller EXCEPT !.attempts[a].phase = "idle"],
                                 state.state))
  /\ UNCHANGED <<online, forcing, nCancels, dbVars, lang, store, dl, lookup>>

\* KanjiDatabase.notifyChanged(topic): the topic the listeners are called with
notifyChanged(topic) == "stateupdated"

\* the change listener of the controller: onDatabaseChange(db, topic)
changeCallback(s, topic, state) ==
  IF topic = "deleted" THEN cancelUpdateWithRetry(s) ELSE onDatabaseChange(s, state)

\* a retry waits for its timer, for idle time or for the online event, and
\* no db.update() is running
RetryScheduled ==
  /\ timers \cup idleCallbacks \cup listeners # {}
  /\ \A a \in Slots : attempts[a].pc = "none"
  /\ forcing = 0

\* db.destroy(), from the removal of the store on: the update state is reset
\* and the listeners are notified.
Destroy ==
  /\ log.nDestroys < MaxDestroys
  /\ updateState' = IdleState
  /\ Becomes(changeCallback([Controller EXCEPT !.log.nDestroys = @ + 1,
                                               !.log.destroyed = RetryScheduled],
                            notifyChanged("deleted"), IdleState.state))
  /\ UNCHANGED <<online, forcing, nCancels, dbVars, lang, store, dl, lookup>>

\* The controller with a database that is destroyed.
NextDestroy ==
  \/ \E forceUpdate \in BOOLEAN :
       log.nRetryCalls < MaxStreakCalls /\ UpdateWithRetry(forceUpdate)
  \/ ForcedUpdate
  \/ CancelUpdateWithRetry
  \/ \E h \in timers : TimerFires(h)
  \/ \E h \in idleCallbacks : IdleCallbackRuns(h)
  \/ GoOffline
  \/ GoOnline
  \/ \E a \in Slots : DbAdvance(a)
  \/ \E a \in Slots, e \in Outcomes :
       /\ IsDownloadError(e) => log.streak < MaxForceStreak
       /\ DbSettles(a, e, MinIntervalMs)
  \/ Destroy

SpecDestroy == InitKanji /\ [][NextDestroy]_vars

\* The controller with forced updates, and with series that are up to date.
NextForce ==
  \/ \E forceUpdate \in BOOLEAN :
       log.nRetryCalls < MaxStreakCalls /\ UpdateWithRetry(forceUpdate)
  \/ ForcedUpdate
  \/ CancelUpdateWithRetry
  \/ \E h \in timers : TimerFires(h)
  \/ \E h \in idleCallbacks : IdleCallbackRuns(h)
  \/ GoOffline
  \/ GoOnline
  \/ \E a \in Slots : DbAdvance(a)
  \/ \E a \in Slots : DbUpToDate(a)
  \/ \E a \in Slots, e \in Outcomes :
       /\ IsDownloadError(e) => log.streak < MaxForceStreak
       /\ DbSettles(a, e, MinIntervalMs)

SpecForce == InitKanji /\ [][NextForce]_vars


(***************************************************************************)
(* JpdictStore: open(), close() and destroy().  The engine (IndexedDB)     *)
(* answers an openDB or a deleteDB request in a later task; the calls that *)
(* await the same promise go on in the order they began to wait, before    *)
(* any other task runs.                                                    *)
(***************************************************************************)
StoreCalls == 1..MaxStoreCalls

\* the store after an open request of the engine is made for call c
startOpen(s, c) ==
  LET n == Len(s.opens) + 1 IN
  [s EXCEPT !.state = "opening",
            !.opens = Append(@, [status |-> "pending", waiters |-> <<c>>]),
            !.openPromise = n,
            !.call[c].pc = "awaitOpen", !.call[c].on = n]

\* destroy() from `this.state = 'deleting'` on
startDelete(s, c) ==
  LET d == Len(s.deletes) + 1 IN
  [s EXCEPT !.state = "deleting",
            !.deletes = Append(@, [status |-> "pending", waiters |-> <<c>>]),
            !.deletePromise = d,
            !.call[c].pc = "awaitDelete", !.call[c].on = d]

\* the call settles; in getDataVersion `await this.open()` has settled
settle(s, c, outcome, result) ==
  IF s.call[c].op = "getDataVersion" /\ outcome = "resolved"
  THEN [s EXCEPT !.call[c].pc = "afterOpen", !.micro = Append(@, c)]
  ELSE [s EXCEPT !.call[c].pc = "done", !.call[c].outcome = outcome,
                 !.call[c].result = result]

\* this.db!.close() or this.db!.get(): a TypeError when this.db is undefined
useHandle(s, c) ==
  IF s.db = 0
  THEN [s EXCEPT !.call[c].pc = "done", !.call[c].outcome = "rejected",
                 !.call[c].error = "TypeError"]
  ELSE [s EXCEPT !.call[c].pc = "done", !.call[c].outcome = "resolved",
                 !.call[c].result = s.db]

\* destroy() has returned: the state and the version records it leaves
destroyed(s, c) ==
  [settle(s, c, "resolved", 0) EXCEPT !.call[c].endState = s.state,
                                      !.call[c].endVersion = s.hasVersion]

\* close() from `this.db!.close()` on; destroy() goes on after it
closeNow(s, c) ==
  IF s.db = 0
  THEN \* TypeError: this.db is undefined
       useHandle(s, c)
  ELSE LET closed == [s EXCEPT !.db = 0, !.state = "idle"] IN
       IF s.call[c].op = "destroy" THEN startDelete(closed, c)
       ELSE settle(closed, c, "resolved", 0)

\* close(), called by the client or by destroy()
close(s, c) ==
  CASE s.state = "idle" ->
         IF s.call[c].op = "destroy" THEN startDelete(s, c)
         ELSE settle(s, c, "resolved", 0)
    [] s.state = "deleting" ->
         [s EXCEPT !.deletes[s.deletePromise].waiters = Append(@, c),
                   !.call[c].pc = "closeAwaitDelete", !.call[c].on = s.deletePromise]
    [] s.state = "opening" /\ s.openPromise # 0 ->
         [s EXCEPT !.opens[s.openPromise].waiters = Append(@, c),
                   !.call[c].pc = "closeAwaitOpen", !.call[c].on = s.openPromise]
    [] OTHER -> closeNow(s, c)

\* open()
open(s, c) ==
  CASE s.state = "open" -> settle(s, c, "resolved", s.db)
    [] s.state = "opening" /\ s.openPromise # 0 ->
         [s EXCEPT !.opens[s.openPromise].waiters = Append(@, c),
                   !.call[c].pc = "shareOpen", !.call[c].on = s.openPromise]
    [] s.state = "opening" /\ s.openPromise = 0 ->
         \* return this.openPromise!, which is undefined
         settle(s, c, "resolved", 0)
    [] s.state = "deleting" ->
         [s EXCEPT !.deletes[s.deletePromise].waiters = Append(@, c),
                   !.call[c].pc = "openAwaitDelete", !.call[c].on = s.deletePromise]
    [] OTHER -> startOpen(s, c)

\* the open() calls that have not settled
OpenCallsPending(s) ==
  {c \in StoreCalls : s.call[c].op = "open" /\ s.call[c].pc # "done"}

\* the client calls open(), close() or destroy()
StoreCall(op) ==
  /\ store.micro = <<>>
  /\ store.nCalls < MaxStoreCalls
  /\ LET c == store.nCalls + 1
         s == [store EXCEPT !.nCalls = c, !.call[c].op = op,
                            !.call[c].peers = OpenCallsPending(store)]
     IN store' = CASE op = "open" -> open(s, c)
                   [] op = "close" -> close(s, c)
                   [] op = "destroy" -> close(s, c)
                   [] op = "getDataVersion" -> open(s, c)
  /\ UNCHANGED <<retryVars, updateState, nCancels, dbVars, lang, dl, lookup>>

\* the engine opens the database: the then() callback of open() runs
OpenSucceeds(n) ==
  /\ store.micro = <<>>
  /\ n \in DOMAIN store.opens
  /\ store.opens[n].status = "pending"
  /\ store' = [store EXCEPT !.opens[n].status = "resolved",
                            !.db = n, !.state = "open",
                            !.micro = store.opens[n].waiters]
  /\ UNCHANGED <<retryVars, updateState, nCancels, dbVars, lang, dl, lookup>>

\* the engine fails to open the database
OpenFails(n) ==
  /\ store.micro = <<>>
  /\ n \in DOMAIN store.opens
  /\ store.opens[n].status = "pending"
  /\ store' = [store EXCEPT !.opens[n].status = "rejected",
                            !.micro = store.opens[n].waiters]
  /\ UNCHANGED <<retryVars, updateState, nCancels, dbVars, lang, dl, lookup>>

\* the engine has deleted the database
DeleteDone(d) ==
  /\ store.micro = <<>>
  /\ d \in DOMAIN store.deletes
  /\ store.deletes[d].status = "pending"
  /\ store' = [store EXCEPT !.deletes[d].status = "done",
                            !.hasVersion = FALSE,
                            !.micro = store.deletes[d].waiters]
  /\ UNCHANGED <<retryVars, updateState, nCancels, dbVars, lang, dl, lookup>>

\* a version record is written through the open database
PutVersion ==
  /\ store.micro = <<>>
  /\ store.state = "open" /\ store.db # 0
  /\ ~store.hasVersion
  /\ store' = [store EXCEPT !.hasVersion = TRUE]
  /\ UNCHANGED <<retryVars, updateState, nCancels, dbVars, lang, dl, lookup>>

\* the call that waited longest for the promise that settled goes on
StoreContinues ==
  /\ store.micro # <<>>
  /\ LET c == Head(store.micro)
         s == [store EXCEPT !.micro = Tail(@)]
         pc == store.call[c].pc
         opened == store.opens[store.call[c].on].status = "resolved"
     IN store' =
          CASE pc = "awaitOpen" ->
                 \* catch: this.state = 'error'; finally: this.openPromise = undefined
                 IF opened
                 THEN settle([s EXCEPT !.openPromise = 0], c, "resolved", s.db)
                 ELSE settle([s EXCEPT !.openPromise = 0, !.state = "error"],
                             c, "rejected", 0)
            [] pc = "shareOpen" ->
                 IF opened THEN settle(s, c, "resolved", store.call[c].on)
                 ELSE settle(s, c, "rejected", 0)
            [] pc = "openAwaitDelete" -> startOpen(s, c)
            [] pc = "closeAwaitOpen" ->
                 IF opened THEN closeNow(s, c) ELSE settle(s, c, "rejected", 0)
            [] pc = "closeAwaitDelete" ->
                 IF store.call[c].op = "destroy" THEN startDelete(s, c)
                 ELSE settle(s, c, "resolved", 0)
            [] pc = "awaitDelete" ->
                 destroyed([s EXCEPT !.deletePromise = 0, !.state = "idle"], c)
            \* getDataVersion: this.db!.get('version', key)
            [] pc = "afterOpen" -> useHandle(s, c)
  /\ UNCHANGED <<retryVars, updateState, nCancels, dbVars, lang, dl, lookup>>

\* another connection asks for a change of version: blocking() runs
Blocking ==
  /\ store.micro = <<>>
  /\ store.db # 0
  /\ store' = [store EXCEPT !.db = 0, !.state = "idle"]
  /\ UNCHANGED <<retryVars, updateState, nCancels, dbVars, lang, dl, lookup>>

NextStore ==
  \/ \E op \in {"open", "close", "destroy", "getDataVersion"} : StoreCall(op)
  \/ Blocking
  \/ \E n \in StoreCalls : OpenSucceeds(n)
  \/ \E n \in StoreCalls : OpenFails(n)
  \/ \E d \in StoreCalls : DeleteDone(d)
  \/ PutVersion
  \/ StoreContinues

SpecStore == Init /\ [][NextStore]_vars


(***************************************************************************)
(* JpdictDatabase.destroy: the store is removed once its transactions are  *)
(* done, and the facade goes on with a new JpdictStore.                    *)
(***************************************************************************)
\* the updates that have not settled
Unsettled == {t \in Tasks : task[t].pc \notin {"idle", "done"}}

FacadeDestroy ==
  /\ Quiet
  /\ tx.owner = 0
  /\ store.generation < MaxDestroys
  \* await this.store.destroy()
  /\ table' = [s \in DataSeries |-> EmptyTable]
  /\ version' = [s \in DataSeries |-> NullVersion]
  /\ lang' = [lang EXCEPT !.stored = [s \in DataSeries |-> NoLang],
                          !.data = [s \in DataSeries |-> NoLang]]
  \* this.store = new JpdictStore()
  /\ store' = [NoStore EXCEPT !.generation = store.generation + 1,
                              !.inFlight = Unsettled]
  /\ dataVersion' = [s \in DataSeries |-> NullVersion]
  /\ updateState' = IdleState
  /\ UNCHANGED <<dl, lookup, retryVars, facade, tx, inProgressUpdates, stream, applier,
                 inProgressUpdate, updateQueue, arrays, task, nTasks, micro, calls,
                 nJoins, nCancels, fetches, lastFile, lastBulk>>

\* One update of the database, and destroy().
NextFacade ==
  \/ \E req \in Requests : nTasks < MaxFacadeTasks /\ UpdateNew(req)
  \/ \E t \in Tasks : TaskStart(t)
  \/ \E t \in Tasks : Download(t)
  \/ \E t \in Tasks : Arrive(t)
  \/ \E t \in Tasks : StreamError(t)
  \/ \E t \in Tasks : ReadError(t)
  \/ \E t \in Tasks : ReadDone(t)
  \/ \E t \in Tasks : ReadEvent(t)
  \/ \E t \in Tasks : ReadVersionEnd(t)
  \/ TxDrop
  \/ TxPut
  \/ TxVersion
  \/ TxCommit
  \/ TxFail
  \/ FacadeDestroy

SpecFacade == Init /\ [][NextFacade]_vars


(***************************************************************************)
(* download(): the version check and the data files requested, for any     *)
(* current version and any version of the manifest.  Each file that has    *)
(* been read is applied to the store, whose version record follows.        *)
(***************************************************************************)
\* the versions a store or a manifest can hold within the bounds
Versions == [major : 1..MaxMajor, minor : 0..MaxMinor, patch : 0..MaxFilePatch]
VersionInfos ==
  [major : 1..MaxMajor, minor : 0..MaxMinor, patch : 0..MaxFilePatch,
   snapshot : 0..MaxFilePatch]

\* a data file: the patch level in its name and its type
File(p, fileType) == [patch |-> p, fileType |-> fileType]

NewDownload(currentVersion, versionInfo) ==
  [currentVersion |-> currentVersion, versionInfo |-> versionInfo,
   pc |-> "start", currentPatch |-> 0, error |-> "none",
   \* the data files requested so far; the version record of the store
   requested |-> <<>>, stored |-> currentVersion]

InitDownload ==
  /\ InitDatabase("JpdictDatabase")
  /\ \E currentVersion \in Versions \cup {NullVersion}, versionInfo \in VersionInfos :
       dl = NewDownload(currentVersion, versionInfo)
  /\ lookup = NoLookup

\* the local database is ahead by its major or minor version
tooOldFromMinor(currentVersion, versionInfo) ==
  /\ currentVersion # NullVersion
  /\ compareVersions([currentVersion EXCEPT !.patch = 0],
                     [versionInfo EXCEPT !.patch = 0]) > 0

\* the local database is ahead of what is about to be downloaded
tooOld(currentVersion, versionInfo) ==
  /\ currentVersion # NullVersion
  /\ compareVersions(currentVersion, versionInfo) > 0

\* the full file is fetched when the minor versions differ
needsFullOnMinor(currentVersion, versionInfo) ==
  \/ currentVersion = NullVersion
  \/ currentVersion.minor # versionInfo.minor

\* the full file is needed: no current version, or a change in minor version
needsFull(currentVersion, versionInfo) ==
  \/ currentVersion = NullVersion
  \/ compareVersions(currentVersion, [versionInfo EXCEPT !.patch = 0]) < 0

\* getVersionInfo() fails
VersionFileFails ==
  /\ dl.pc = "start"
  /\ dl' = [dl EXCEPT !.pc = "errored", !.error = "VersionFileNotAccessible"]
  /\ UNCHANGED <<lookup, store, lang, retryVars, updateState, nCancels, dbVars>>

\* getVersionInfo() returns and the versions are compared
VersionChecked ==
  /\ dl.pc = "start"
  /\ dl' = IF tooOld(dl.currentVersion, dl.versionInfo)
           THEN [dl EXCEPT !.pc = "errored", !.error = "DatabaseTooOld"]
           ELSE IF needsFull(dl.currentVersion, dl.versionInfo)
           THEN [dl EXCEPT !.pc = "full", !.currentPatch = dl.versionInfo.snapshot]
           ELSE [dl EXCEPT !.pc = "patches", !.currentPatch = dl.currentVersion.patch]
  /\ UNCHANGED <<lookup, store, lang, retryVars, updateState, nCancels, dbVars>>

\* getEvents() of the full file
RequestFull ==
  /\ dl.pc = "full"
  /\ dl' = [dl EXCEPT !.pc = "fullread",
                      !.requested = Append(@, File(dl.versionInfo.snapshot, "full"))]
  /\ UNCHANGED <<lookup, store, lang, retryVars, updateState, nCancels, dbVars>>

\* getEvents() of the next patch file
RequestPatch ==
  /\ dl.pc = "patches"
  /\ dl.currentPatch < dl.versionInfo.patch
  /\ dl' = [dl EXCEPT !.pc = "patchread", !.currentPatch = @ + 1,
                      !.requested = Append(@, File(dl.currentPatch + 1, "patch"))]
  /\ UNCHANGED <<lookup, store, lang, retryVars, updateState, nCancels, dbVars>>

\* the file has been read to its end and applied
FileRead ==
  /\ dl.pc \in {"fullread", "patchread"}
  /\ dl' = [dl EXCEPT !.pc = "patches",
                      !.stored = [major |-> dl.versionInfo.major,
                                  minor |-> dl.versionInfo.minor,
                                  patch |-> dl.currentPatch]]
  /\ UNCHANGED <<lookup, store, lang, retryVars, updateState, nCancels, dbVars>>

\* the file is not there, or is not what its name says
FileFails ==
  /\ dl.pc \in {"fullread", "patchread"}
  /\ dl' = [dl EXCEPT !.pc = "errored", !.error = "DatabaseFileNotFound"]
  /\ UNCHANGED <<lookup, store, lang, retryVars, updateState, nCancels, dbVars>>

\* controller.close() after the last patch
DownloadCloses ==
  /\ dl.pc = "patches"
  /\ dl.currentPatch >= dl.versionInfo.patch
  /\ dl' = [dl EXCEPT !.pc = "closed"]
  /\ UNCHANGED <<lookup, store, lang, retryVars, updateState, nCancels, dbVars>>

NextDownload ==
  \/ VersionFileFails
  \/ VersionChecked
  \/ RequestFull
  \/ RequestPatch
  \/ FileRead
  \/ FileFails
  \/ DownloadCloses

SpecDownload == InitDownload /\ [][NextDownload]_vars


(***************************************************************************)
(* update() of update.ts on its own: one call that reads any stream of     *)
(* events, with any of its parameters (toRecord, getId, callback) throwing *)
(***************************************************************************)
\* the events a stream can deliver
StreamEvents ==
  {VersionEvent(MaxPatch, fileType) : fileType \in {"full", "patch"}}
    \cup {Event("entry", k, MaxPatch) : k \in Keys}
    \cup {Event("deletion", k, 0) : k \in Keys}
    \cup {Event("versionend", 0, MaxPatch)}

InitApplier ==
  \E events \in UNION {[1..n -> StreamEvents] : n \in 0..MaxEvents} :
    /\ facade = "JpdictDatabase"
    /\ table = [s \in DataSeries |->
                  IF s = "kanji" THEN [k \in Keys |-> 0] ELSE EmptyTable]
    /\ version = [s \in DataSeries |->
                    IF s = "kanji" THEN Version(s, 0) ELSE NullVersion]
    /\ tx = NoTx
    /\ inProgressUpdates = 1
    /\ stream = [t \in Tasks |->
                   IF t = 1
                   THEN [state |-> "open", events |-> events, avail |-> Len(events),
                         requested |-> 1, atCancel |-> 0]
                   ELSE NoStream]
    /\ applier = [t \in Tasks |-> NewApplier]
    /\ dataVersion = version
    /\ inProgressUpdate = 1
    /\ updateQueue = 1
    /\ arrays = [t \in Tasks |-> IF t = 1 THEN <<"kanji">> ELSE <<>>]
    /\ task = [t \in Tasks |->
                 IF t = 1
                 THEN [NewTask EXCEPT !.pc = "reading", !.iter = 1, !.idx = 1,
                                      !.series = "kanji",
                                      !.startVersion = Version("kanji", 0),
                                      !.checkDate = CheckDate(1, 1)]
                 ELSE NewTask]
    /\ updateState = [state |-> "checking", lastCheck |-> NoDate]
    /\ InitRetry
    /\ lang = NoLanguages
    /\ store = NoStore
    /\ dl = NoDownload /\ lookup = NoLookup
    /\ nTasks = 1
    /\ micro = <<>>
    /\ calls = {[got |-> 1, inflight |-> 0, req |-> <<"kanji">>, sameTick |-> FALSE]}
    /\ nJoins = 0
    /\ nCancels = 0
    /\ fetches = [t \in Tasks |-> [s \in DataSeries |->
                    IF t = 1 /\ s = "kanji" THEN 1 ELSE 0]]
    /\ lastFile = version
    /\ lastBulk = NoBulk

\* toRecord(), getId() or callback() throws while update() handles an entry,
\* deletion or version event: the exception leaves update() as it is
ParameterThrows(t) ==
  /\ Quiet
  /\ task[t].pc = "reading"
  /\ stream[t].state = "open"
  /\ stream[t].avail > 0
  /\ Head(stream[t].events).type \in {"entry", "deletion", "version"}
  /\ UpdateThrew(t, "TypeError", micro)
  /\ UNCHANGED <<dl, lookup, store, lang, retryVars, facade, table, version, tx, inProgressUpdates, applier, dataVersion, arrays, nTasks, calls,
                 nJoins, nCancels, lastFile, lastBulk>>

NextApplier ==
  \/ ReadEvent(1)
  \/ ReadVersionEnd(1)
  \/ ReadDone(1)
  \/ StreamError(1)
  \/ ReadError(1)
  \/ ParameterThrows(1)
  \/ CancelUpdate /\ UNCHANGED lang
  \/ TxDrop
  \/ TxPut
  \/ TxVersion
  \/ TxCommit
  \/ TxFail

SpecApplier == InitApplier /\ [][NextApplier]_vars

(***************************************************************************)
(* setPreferredLang and update() called in any order: the client does not  *)
(* wait for setPreferredLang to return before it calls update()            *)
(***************************************************************************)
NextClear ==
  \/ UpdateNew(<<"kanji">>)
  \/ \E l \in Langs : SetPreferredLang(l)
  \/ SetLangCheck
  \/ SetLangClear
  \/ \E t \in Tasks : TaskStart(t)
  \/ \E t \in Tasks : Download(t)
  \/ \E t \in Tasks : Arrive(t)
  \/ \E t \in Tasks : StreamError(t)
  \/ \E t \in Tasks : ReadError(t)
  \/ \E t \in Tasks : ReadDone(t)
  \/ \E t \in Tasks : ReadEvent(t)
  \/ \E t \in Tasks : ReadVersionEnd(t)
  \/ TxDrop
  \/ TxPut
  \/ TxVersion
  \/ TxCommit
  \/ TxFail

SpecClear == Init /\ [][NextClear]_vars

(***************************************************************************)
(* The cached radicals of JpdictDatabase: radicalsPromise and              *)
(* charToRadicalMap, read by getComponentsForKanji while an update of the  *)
(* radicals series commits.  The radicals data has the version 0 before    *)
(* the update and 1 after it; a map is known by the version of the records *)
(* it was built from.                                                      *)
(***************************************************************************)
\* an empty Map, and a promise that is not settled yet
EmptyMap == -1
Pending == -1

\* the facade before a lookup: nothing cached, the radicals cached, or the
\* radicals and the mapping cached
NewLookup(warmth, needsKanji) ==
  [pc |-> "start", needsKanji |-> needsKanji, nLookups |-> 1,
   \* the radicals table of the store; the update of the radicals series
   data |-> 0, update |-> "running",
   \* the promises made by store.getAllRadicals().then(...)
   promises |-> IF warmth = "cold" THEN <<>> ELSE <<0>>,
   radicalsPromise |-> IF warmth = "cold" THEN 0 ELSE 1,
   charToRadicalMap |-> IF warmth = "warm" THEN 0 ELSE EmptyMap,
   \* getComponentsForKanji: the promise awaited, radicalMap and radicals
   awaited |-> 0, radicalMap |-> EmptyMap, radicals |-> EmptyMap]

InitRadicals ==
  /\ InitDatabase("JpdictDatabase")
  /\ dl = NoDownload
  /\ \E warmth \in {"cold", "promise", "warm"}, needsKanji \in BOOLEAN :
       lookup = NewLookup(warmth, needsKanji)

\* getRadicals() and the await of its result: the promise cached or a new
\* one; the caller goes on at once when the promise is resolved already
getRadicals(l, pc) ==
  IF l.radicalsPromise = 0
  THEN [l EXCEPT !.promises = Append(@, Pending),
                 !.radicalsPromise = Len(l.promises) + 1,
                 !.awaited = Len(l.promises) + 1, !.pc = pc]
  ELSE IF l.promises[l.radicalsPromise] = Pending
  THEN [l EXCEPT !.awaited = l.radicalsPromise, !.pc = pc]
  ELSE [l EXCEPT !.pc = "resolved"]

\* getComponentsForKanji at `const radicals = await this.getRadicals()`
GotRadicals(l, radicals) == [l EXCEPT !.radicals = radicals, !.pc = "done"]

\* getComponentsForKanji at `await this.getRadicals()`
AwaitRadicals(l) ==
  LET g == getRadicals(l, "awaitRadicals") IN
  IF g.pc = "resolved" THEN GotRadicals(l, l.promises[l.radicalsPromise])
  ELSE g

\* getComponentsForKanji from `const radicalMap = ...` on: the kanji that
\* are no radicals are read from the store, then the radicals are asked for
GotRadicalMap(l, radicalMap) ==
  LET m == [l EXCEPT !.radicalMap = radicalMap] IN
  IF l.needsKanji THEN [m EXCEPT !.pc = "getKanji"]
  ELSE AwaitRadicals(m)

\* getCharToRadicalMapping() after `await this.getRadicals()`: the mapping
\* is built and cached
BuiltMapping(l, radicals) ==
  GotRadicalMap([l EXCEPT !.charToRadicalMap = radicals], radicals)

\* getComponentsForKanji starts: getCharToRadicalMapping()
LookupStarts ==
  /\ lookup.pc = "start"
  /\ lookup' = IF lookup.charToRadicalMap # EmptyMap
               THEN GotRadicalMap(lookup, lookup.charToRadicalMap)
               ELSE LET g == getRadicals(lookup, "awaitMapping") IN
                    IF g.pc = "resolved"
                    THEN BuiltMapping(lookup,
                                      lookup.promises[lookup.radicalsPromise])
                    ELSE g
  /\ UNCHANGED <<dl, store, lang, retryVars, updateState, nCancels, dbVars>>

\* store.getAllRadicals() of a promise answers with the records committed
RadicalsRead(p) ==
  /\ lookup.pc \notin {"none"}
  /\ p \in 1..Len(lookup.promises)
  /\ lookup.promises[p] = Pending
  /\ lookup' = [lookup EXCEPT !.promises[p] = lookup.data]
  /\ UNCHANGED <<dl, store, lang, retryVars, updateState, nCancels, dbVars>>

\* the promise awaited is resolved: getCharToRadicalMapping goes on
MappingResumes ==
  /\ lookup.pc = "awaitMapping"
  /\ lookup.promises[lookup.awaited] # Pending
  /\ lookup' = BuiltMapping(lookup, lookup.promises[lookup.awaited])
  /\ UNCHANGED <<dl, store, lang, retryVars, updateState, nCancels, dbVars>>

\* store.getKanji() answers
KanjiRead ==
  /\ lookup.pc = "getKanji"
  /\ lookup' = AwaitRadicals(lookup)
  /\ UNCHANGED <<dl, store, lang, retryVars, updateState, nCancels, dbVars>>

\* the promise awaited is resolved: getComponentsForKanji has its radicals
RadicalsResume ==
  /\ lookup.pc = "awaitRadicals"
  /\ lookup.promises[lookup.awaited] # Pending
  /\ lookup' = GotRadicals(lookup, lookup.promises[lookup.awaited])
  /\ UNCHANGED <<dl, store, lang, retryVars, updateState, nCancels, dbVars>>

\* the next getKanji() call
LookupAgain(needsKanji) ==
  /\ lookup.pc = "done"
  /\ lookup.nLookups < MaxLookups
  /\ lookup' = [lookup EXCEPT !.pc = "start", !.needsKanji = needsKanji,
                              !.nLookups = @ + 1, !.awaited = 0,
                              !.radicalMap = EmptyMap, !.radicals = EmptyMap]
  /\ UNCHANGED <<dl, store, lang, retryVars, updateState, nCancels, dbVars>>

\* the transaction of the radicals update commits
RadicalsCommit ==
  /\ lookup.pc # "none"
  /\ lookup.update = "running"
  /\ lookup' = [lookup EXCEPT !.data = 1, !.update = "committed"]
  /\ UNCHANGED <<dl, store, lang, retryVars, updateState, nCancels, dbVars>>

\* callback(finishpatch): updateDataVersion('radicals', version)
updateDataVersion ==
  /\ lookup.pc # "none"
  /\ lookup.update = "committed"
  /\ lookup' = [lookup EXCEPT !.update = "done", !.radicalsPromise = 0,
                              !.charToRadicalMap = EmptyMap]
  /\ UNCHANGED <<dl, store, lang, retryVars, updateState, nCancels, dbVars>>

NextRadicals ==
  \/ LookupStarts
  \/ \E p \in 1..MaxLookups + 1 : RadicalsRead(p)
  \/ MappingResumes
  \/ KanjiRead
  \/ RadicalsResume
  \/ \E needsKanji \in BOOLEAN : LookupAgain(needsKanji)
  \/ RadicalsCommit
  \/ updateDataVersion

SpecRadicals == InitRadicals /\ [][NextRadicals]_vars

(***************************************************************************)
(* getRadicalForKanji: the radical block of a KanjiResult, for any kanji   *)
(* record and any radicals table.  A radical id is the digits before the   *)
(* dash and the suffix after it ("" for a base radical, which has no       *)
(* dash).                                                                  *)
(***************************************************************************)
\* id.toString().padStart(3, '0')
formatRadicalId(id) ==
  [digits |-> <<id \div 100, (id \div 10) % 10, id % 10>>, suffix |-> ""]

RECURSIVE parseInt(_)
\* parseInt(radical, 10) of the digits matched by /^(\d+)-/
parseInt(digits) ==
  IF digits = <<>> THEN 0
  ELSE 10 * parseInt(SubSeq(digits, 1, Len(digits) - 1)) + digits[Len(digits)]

\* the ids the var array of a record and the radicals table can hold: base
\* radicals, their variant "-2", and a variant written without padding
RadicalIds ==
  UNION {{formatRadicalId(x), [formatRadicalId(x) EXCEPT !.suffix = "2"],
          [digits |-> <<x>>, suffix |-> "2"]} : x \in 1..MaxRadical}

\* the value of a missing id, of a missing entry, and the entry of an id
NoRadicalId == [digits |-> <<>>, suffix |-> ""]
NoEntry == [b |-> NoRadicalId]
RadicalEntry(id) == [b |-> id]

RECURSIVE parseVariants(_)
\* parseVariants(record): the ids of record.var that match /^(\d+)-/
parseVariants(var) ==
  IF var = <<>> THEN <<>>
  ELSE (IF Head(var).suffix # ""
        THEN <<[radical |-> parseInt(Head(var).digits), id |-> Head(var)]>>
        ELSE <<>>) \o parseVariants(Tail(var))

\* the first variant of the record, whatever its radical
getRadicalVariantIdFirst(record) ==
  LET variants == parseVariants(record.var) IN
  IF variants = <<>> THEN NoRadicalId ELSE variants[1].id

\* getRadicalVariantId(record): variants.find(a => a.radical === record.rad.x)?.id
getRadicalVariantId(record) ==
  LET variants == parseVariants(record.var)
      found == {i \in 1..Len(variants) : variants[i].radical = record.x}
  IN IF found = {} THEN NoRadicalId
     ELSE variants[CHOOSE i \in found : \A j \in found : i <= j].id

\* the rad member getRadicalForKanji makes for one record
getRadicalForKanji(record, radicals) ==
  LET variantId == getRadicalVariantId(record)
      baseId == formatRadicalId(record.x)
      key == IF variantId # NoRadicalId THEN variantId ELSE baseId
      rad == [x |-> record.x,
              b |-> IF key \in DOMAIN radicals THEN radicals[key] ELSE NoEntry]
  IN IF variantId # NoRadicalId /\ baseId \in DOMAIN radicals
     THEN [rad |-> rad, hasBase |-> TRUE, base |-> radicals[baseId]]
     ELSE [rad |-> rad, hasBase |-> FALSE, base |-> NoEntry]

InitRadical ==
  /\ InitDatabase("JpdictDatabase")
  /\ dl = NoDownload
  /\ \E x \in 1..MaxRadical,
        var \in UNION {[1..n -> RadicalIds] : n \in 0..MaxVar},
        present \in SUBSET RadicalIds :
       lookup = [pc |-> "called", record |-> [x |-> x, var |-> var],
                 radicals |-> [id \in present |-> RadicalEntry(id)],
                 result |-> [rad |-> [x |-> 0, b |-> NoEntry],
                             hasBase |-> FALSE, base |-> NoEntry]]

\* getKanji() returns the result with its rad member
GetKanjiReturns ==
  /\ lookup.pc = "called"
  /\ lookup' = [lookup EXCEPT !.pc = "returned",
                  !.result = getRadicalForKanji(lookup.record, lookup.radicals)]
  /\ UNCHANGED <<dl, store, lang, retryVars, updateState, nCancels, dbVars>>

NextRadical ==
  \/ GetKanjiReturns

SpecRadical == InitRadical /\ [][NextRadical]_vars

(***************************************************************************)
(* getNames: the names table holds records with an id, kanji spellings k   *)
(* and readings r; a string is a word in one script.                       *)
(***************************************************************************)
NameReadings ==
  {[word |-> "maruta", script |-> "hiragana"],
   [word |-> "maruta", script |-> "katakana"],
   [word |-> "tanaka", script |-> "hiragana"]}

NameSpellings == {[word |-> "maruta", script |-> "kanji"]}

\* the records a names table can hold under one id
NameRecords ==
  [r : SUBSET NameReadings \ {{}}, k : SUBSET NameSpellings]

RECURSIVE iterate(_, _, _, _)
\* index.iterate(IDBKeyRange.only(search)): the records from id on whose
\* multi-entry index holds the key, in the order of their ids
iterate(names, index, search, id) ==
  IF id > MaxNames THEN <<>>
  ELSE (IF search \in names[id][index] THEN <<id>> ELSE <<>>)
         \o iterate(names, index, search, id + 1)

RECURSIVE addAll(_, _)
\* result.add(cursor.value) for each record of a cursor: a Set keeps the
\* first insertion of a value
addAll(result, ids) ==
  IF ids = <<>> THEN result
  ELSE addAll(IF \E i \in 1..Len(result) : result[i] = Head(ids)
              THEN result ELSE Append(result, Head(ids)), Tail(ids))

\* getNames(search): the k index first, then the r index
getNames(names, search) ==
  addAll(addAll(<<>>, iterate(names, "k", search, 1)),
         iterate(names, "r", search, 1))

InitNames ==
  /\ InitDatabase("JpdictDatabase")
  /\ dl = NoDownload
  /\ \E names \in [1..MaxNames -> NameRecords],
        search \in NameReadings \cup NameSpellings :
       lookup = [pc |-> "called", names |-> names, search |-> search,
                 result |-> <<>>]

\* getNames() returns
GetNamesReturns ==
  /\ lookup.pc = "called"
  /\ lookup' = [lookup EXCEPT !.pc = "returned",
                  !.result = getNames(lookup.names, lookup.search)]
  /\ UNCHANGED <<dl, store, lang, retryVars, updateState, nCancels, dbVars>>

NextNames ==
  \/ GetNamesReturns

SpecNames == InitNames /\ [][NextNames]_vars

(***************************************************************************)
(* Properties                                                              *)
(***************************************************************************)
\* the files upstream offers for a series: the snapshot and the patches
UpstreamFiles(series) ==
  {FileEvents(VersionInfo(series).snapshot, "full")}
    \cup {FileEvents(p, "patch") : p \in 1..MaxPatch}

\* all the entry and deletion writes of a file, made to table contents
WholeFile(tab, file) ==
  [k \in Keys |->
     IF \E i \in 2..Len(file) : file[i].type = "entry" /\ file[i].key = k
     THEN LET i == CHOOSE i \in 2..Len(file) :
                     file[i].type = "entry" /\ file[i].key = k
          IN file[i].val
     ELSE IF ~file[1].partial
             \/ \E i \in 2..Len(file) : file[i].type = "deletion" /\ file[i].key = k
          THEN Absent
          ELSE tab[k]]

Failed(tk) == tk.pc = "done" /\ tk.outcome # "resolved" /\ tk.series # "none"

\* C1: whatever updates succeed, fail or are cancelled, what a reader sees of
\* a series changes only by a whole file at a time: the file's version record
\* appears together with all of the file's entry and deletion writes, never
\* before them and never without them.
C1_VersionWithWholeFile ==
  [][\A s \in DataSeries :
       (table'[s] # table[s] \/ version'[s] # version[s]) =>
         \E file \in UpstreamFiles(s) :
           /\ version'[s] = Version(s, file[1].val)
           /\ table'[s] = WholeFile(table[s], file)]_vars

\* a patch is committed with a cancelled update behind and a transaction failed
C1_Witness ==
  /\ nCancels > 0
  /\ \E t \in Tasks : task[t].pc = "done" /\ task[t].outcome = "StorageError"
  /\ \E s \in DataSeries : version[s] = Version(s, MaxPatch) /\ table[s] # EmptyTable

\* C2 (as amended): when an update of a series fails, getDataVersion(series)
\* returns the version of the last file committed to the series since the
\* update started, and the value from before the update if none was; a
\* failed bulkUpdateTable leaves the version record as it was.
C2_FailedUpdateVersion ==
  [][\A t \in Tasks :
       (task[t].pc # "done" /\ Failed(task'[t])) =>
         version'[task'[t].series] =
           IF task'[t].committedSince THEN lastFile[task'[t].series]
           ELSE task'[t].startVersion]_vars

\* an update failed in bulkUpdateTable after one of its files was committed
C2_Witness ==
  \E t \in Tasks :
    /\ Failed(task[t])
    /\ task[t].outcome = "StorageError"
    /\ task[t].wroteSomething
    /\ version[task[t].series] # task[t].startVersion

\* C2 (as stated): when an update of a series fails, getDataVersion(series)
\* returns the value it returned before the update started.
C2_PreUpdateVersion ==
  [][\A t \in Tasks :
       (task[t].pc # "done" /\ Failed(task'[t])) =>
         version'[task'[t].series] = task'[t].startVersion]_vars

\* C3: once an update of a series has completed successfully,
\* getDataVersion(series) returns the header of the last file applied to the
\* series, which is upstream's latest patch when nothing was cancelled.
C3_VersionIsLastHeader ==
  \A t \in Tasks : \A s \in task[t].okSeries :
    /\ version[s] = lastFile[s]
    /\ nCancels = 0 => version[s] = Version(s, VersionInfo(s).patch)

\* a whole update resolved with the kanji series at upstream's latest patch
C3_Witness ==
  \E t \in Tasks :
    /\ task[t].outcome = "resolved"
    /\ "kanji" \in task[t].okSeries
    /\ version["kanji"] = Version("kanji", MaxPatch)
    /\ lastFile["kanji"] = Version("kanji", MaxPatch)

\* (B \ D) \cup R, records of R replacing those of B; R alone when all of B
\* is dropped
SetResult(B, D, R, dropAll) ==
  [k \in Keys |->
     IF \E i \in 1..Len(R) : R[i].key = k
     THEN LET last == CHOOSE i \in 1..Len(R) :
                        /\ R[i].key = k
                        /\ \A j \in (i + 1)..Len(R) : R[j].key # k
          IN R[last].val
     ELSE IF dropAll \/ Includes(D, k) THEN Absent ELSE B[k]]

\* C4: applying a patch with entries R and deletions D to a table with
\* contents B leaves it equal to (B \ D) \cup R, the records of R replacing
\* those of B with the same key; a full snapshot with entries R leaves R.
C4_TableAfterBulkUpdate ==
  lastBulk.committed =>
    table[lastBulk.table] =
      SetResult(lastBulk.base, lastBulk.drop, lastBulk.put, lastBulk.dropAll)

\* a committed patch that deleted a record, replaced one and kept one
C4_Witness ==
  /\ lastBulk.committed
  /\ ~lastBulk.dropAll
  /\ \E k \in Keys : Includes(lastBulk.drop, k) /\ lastBulk.base[k] # Absent
                     /\ table["kanji"][k] = Absent
  /\ \E i \in 1..Len(lastBulk.put) :
       /\ lastBulk.base[lastBulk.put[i].key] # Absent
       /\ lastBulk.base[lastBulk.put[i].key] # table["kanji"][lastBulk.put[i].key]

\* C5: the version the facade reports for a series is never a downloaded
\* version whose store write has not committed: it is the version record of
\* the store, before, during and after every write, failure and cancel.
C5_ReportedVersionCommitted ==
  \A s \in DataSeries : dataVersion[s] = version[s]

\* an update() of update.ts that is writing to the store or reading a stream
\* nobody has cancelled
Applying(t) ==
  \/ task[t].pc = "tx"
  \/ task[t].pc = "reading" /\ stream[t].state = "open"

\* C6: at most one update() of update.ts is in flight per store and series:
\* no two of them are reading or writing for the same series at a time.
C6_OneApplierPerSeries ==
  \A t, u \in Tasks :
    (t # u /\ Applying(t) /\ Applying(u)) => task[t].series # task[u].series

\* the update() call that asked for names while another update was in flight
NamesJoined(c) ==
  /\ c.inflight # 0
  /\ Includes(c.req, "names")
  /\ Includes(arrays[c.got], "kanji")

ManifestFetches(t) ==
  fetches[t]["kanji"] + fetches[t]["radicals"] + fetches[t]["names"]

\* C8 (as amended): two update calls made in the same tick cause no more
\* fetches than one call: one manifest fetch and one fetch of each data file
\* per series updated (two manifest fetches for kanji, which updates radicals
\* too), and both callers' promises settle with the same outcome.
C8_RedundantCallFetchesOnce ==
  \A c \in calls : c.sameTick =>
    /\ c.got = c.inflight
    /\ \A s \in DataSeries : fetches[c.got][s] <= 1
    /\ ManifestFetches(c.got) <= Len(ArrayOf(task[c.got].iter))
    /\ (task[c.got].iter = c.got /\ task[c.got].outcome = "resolved") =>
         \A s \in DataSeries :
           fetches[c.got][s] = IF Includes(arrays[c.got], s) THEN 1 ELSE 0

\* the same request made twice in a tick, the update resolved
C8_Witness ==
  \E c \in calls :
    /\ c.sameTick
    /\ c.req = <<"kanji", "radicals">>
    /\ arrays[c.got] = c.req
    /\ task[c.got].outcome = "resolved"
    /\ fetches[c.got]["kanji"] = 1

\* C8 (as stated): two update calls for the same series made in the same
\* tick, and nothing cancelled, cause only one manifest fetch.
C8_OneManifestFetch ==
  \A c \in calls :
    (c.sameTick /\ arrays[c.got] = c.req /\ nCancels = 0) =>
      ManifestFetches(c.got) <= 1

\* C9: a series requested while an update is in flight is in the queue once,
\* the caller gets the in-flight promise, and when that promise resolves
\* without the update having been cancelled, the series has been applied.
C9_QueuedSeriesApplied ==
  /\ \A t \in Tasks : \A i, j \in 1..Len(arrays[t]) :
       arrays[t][i] = arrays[t][j] => i = j
  /\ \A c \in calls : c.inflight # 0 =>
       /\ c.got = c.inflight
       /\ \A i \in 1..Len(c.req) : Includes(arrays[c.got], c.req[i])
       /\ (task[c.got].outcome = "resolved" /\ ~task[c.got].cancelled) =>
            \A i \in 1..Len(c.req) : c.req[i] \in task[c.got].okSeries

\* names was requested during an update of kanji, which then resolved
C9_Witness ==
  \E c \in calls :
    /\ c.inflight # 0
    /\ ~c.sameTick
    /\ c.req = <<"names">>
    /\ arrays[c.got] = <<"kanji", "radicals", "names">>
    /\ task[c.got].outcome = "resolved"
    /\ "names" \in task[c.got].okSeries

\* C10: cancelUpdate makes the in-flight update's promise reject with
\* AbortError and no series is started by that update afterwards, also when
\* update() is called again right after the cancel.
C10_CancelledUpdateAborts ==
  \A t \in Tasks : task[t].cancelled =>
    /\ ~task[t].startedAfterCancel
    /\ task[t].pc = "done" => task[t].outcome = "AbortError"

\* C11: once a download stream has been cancelled it enqueues no further event
\* and requests no further data file: nothing is available to its reader and
\* the files requested are those requested when it was cancelled.
C11_CancelledStreamIsSilent ==
  \A t \in Tasks :
    stream[t].state = "cancelled" =>
      /\ stream[t].avail = 0
      /\ stream[t].requested = stream[t].atCancel

\* An update cancelled while its stream awaited the snapshot, a patch not yet
\* requested, has rejected with AbortError.
C11_Witness ==
  \E t \in Tasks :
    /\ stream[t].state = "cancelled"
    /\ stream[t].requested = 1
    /\ \E i \in 1..Len(stream[t].events) :
         stream[t].events[i].type = "version" /\ stream[t].events[i].val = 1
    /\ task[t].pc = "done"
    /\ task[t].outcome = "AbortError"

\* the table after the snapshot, and after the snapshot and patch 1
SnapshotTable == WholeFile(EmptyTable, FileEvents(VersionInfo("kanji").snapshot, "full"))
PatchedTable == WholeFile(SnapshotTable, FileEvents(1, "patch"))

\* update() of update.ts returns or throws for a series that had no data
\* when it began, its reader cancelled when the version record of the series
\* was the snapshot's
CancelledAfterSnapshot(t) ==
  /\ task[t].pc \in {"reading", "tx"}
  /\ task'[t].pc \notin {"reading", "tx"}
  /\ task[t].cancelledIn # "none"
  /\ task[t].startVersion = NullVersion
  /\ task[t].cancelVersion = Version(task[t].series, 0)

\* C12 (as amended): when the snapshot has been committed and the update is
\* cancelled while patch 1 is being downloaded, getDataVersion afterwards
\* returns the snapshot's version and the snapshot's records remain; when it
\* is cancelled while patch 1 is being applied, the transaction in flight is
\* left to complete: if it commits, getDataVersion returns patch 1 and the
\* table holds the patched records, if it fails, the snapshot's.
C12_CancelDuringPatch ==
  [][\A t \in Tasks :
       CancelledAfterSnapshot(t) =>
         LET s == task[t].series IN
         \/ /\ version'[s] = Version(s, 0)
            /\ table'[s] = SnapshotTable
         \/ /\ task[t].cancelledIn = "apply"
            /\ version'[s] = Version(s, 1)
            /\ table'[s] = PatchedTable]_vars

\* the kanji update was cancelled while it downloaded patch 1 and has rejected
\* with the snapshot in the store
C12_Witness ==
  \E t \in Tasks :
    /\ task[t].pc = "done"
    /\ task[t].outcome = "AbortError"
    /\ task[t].series = "kanji"
    /\ task[t].cancelledIn = "download"
    /\ task[t].wroteSomething
    /\ task[t].cancelVersion = Version("kanji", 0)
    /\ version["kanji"] = Version("kanji", 0)
    /\ table["kanji"] = SnapshotTable

\* C12 (as stated): when the snapshot has been committed and the update is
\* cancelled while patch 1 is being downloaded or applied, getDataVersion
\* afterwards returns the snapshot's version and the snapshot's records remain.
C12_SnapshotAfterCancel ==
  [][\A t \in Tasks :
       CancelledAfterSnapshot(t) =>
         /\ version'[task[t].series] = Version(task[t].series, 0)
         /\ table'[task[t].series] = SnapshotTable]_vars

C15_IdleWhenTerminated ==
  [][\A t \in Tasks :
       (task[t].pc # "done" /\ task'[t].pc = "done") =>
         updateState'.state = "idle"]_vars

(***************************************************************************)
(* Properties of updateWithRetry                                           *)
(***************************************************************************)
\* the last step handled the rejection of db.update() and scheduled a retry
\* by timer
RetryByTimer == log.step.retries > 0 /\ log.step.lastError.delay > 0

\* C16: for the n-th network failure in a row, the delay of the retry that
\* is scheduled lies between min(3000 * 2^(n-1), 12h) and
\* min(6000 * 2^(n-1), 12h) milliseconds.  The failures in a row are those
\* handled since the backoff was last reset: by a success, a download that
\* reached the database, a ConstraintError retry, an offline wait, a cancel
\* or a forced update.
C16_RetryDelayBounds ==
  RetryByTimer =>
    LET n == log.streak
        delay == log.step.lastError.delay
    IN /\ n >= 1
       /\ Min(MinIntervalMs * 2^(n - 1), MaxIntervalMs) <= delay
       /\ delay <= Min((MinIntervalMs + IntervalSpreadMs) * 2^(n - 1), MaxIntervalMs)

\* the backoff has doubled up to the 12 hour limit
C16_Witness ==
  /\ RetryByTimer
  /\ log.streak = MaxStreak
  /\ log.step.lastError.delay = MaxIntervalMs
  /\ retryStatus.retryIntervalMs = MaxIntervalMs

\* the last step handled the rejection, with a network error, of a
\* db.update() that was not cancelled
NetworkFailure ==
  /\ log.step.settled = "NetworkError"
  /\ ~log.step.cancelled

\* the last step handled the success of a db.update() that was not cancelled
RetrySucceeded ==
  /\ log.step.settled = "ok"
  /\ ~log.step.cancelled

\* C17: after a network failure exactly one retry is scheduled and the error
\* is reported once, with its retryCount; when an attempt succeeds
\* onUpdateComplete is called once and no retry remains pending.
C17_OneRetryOneReport ==
  /\ NetworkFailure =>
       /\ log.step.retries = 1
       /\ Cardinality(timers \cup idleCallbacks) = 1
       /\ log.step.errors = 1
       /\ log.step.lastError.name = "NetworkError"
       /\ log.step.lastError.retryCount >= 0
  /\ RetrySucceeded =>
       /\ log.step.completes = 1
       /\ timers \cup idleCallbacks = {}
       /\ ~retryStatus.present

\* the last step handled the rejection of a db.update() that was not
\* cancelled, with a DownloadError of the protocol class
ProtocolFailure ==
  /\ log.step.settled = "ProtocolError"
  /\ ~log.step.cancelled

\* C18: a download error of the protocol class is never retried: it is
\* reported to onUpdateError once and nothing is scheduled.
C18_ProtocolErrorNotRetried ==
  ProtocolFailure =>
    /\ log.step.retries = 0
    /\ log.step.errors = 1
    /\ log.step.lastError.name = "ProtocolError"
    /\ log.step.lastError.delay = 0
    /\ ~retryStatus.present

\* C19: a ConstraintError is retried through requestIdleCallback at most
\* twice in a row; at the next one no retry is scheduled and the error is
\* reported to onUpdateError.
C19_TwoConstraintRetries == log.constraintRetries <= ConstraintRetryLimit

\* the last step ran doUpdate while the device was offline
StartedOffline == log.step.wasOffline

\* the last step dispatched the online event to a waiting update
CameOnline == log.step.wasWaiting

\* C20: when the device is offline as an attempt starts, db.update() is not
\* called, an OfflineError is reported to onUpdateError and a listener
\* waits for the online event; at the next online event the update is
\* started, once.
C20_OfflineWaitsForOnline ==
  /\ StartedOffline =>
       /\ log.step.updates = 0
       /\ log.step.errors = 1
       /\ log.step.lastError.name = "OfflineError"
       /\ Cardinality(listeners) = 1
       /\ retryStatus.present /\ retryStatus.onlineCallback \in listeners
  /\ CameOnline =>
       /\ log.step.updates = 1
       /\ listeners = {}
       /\ Cardinality({a \in Slots : attempts[a].pc = "running"
                                      /\ ~attempts[a].cancelled}) = 1
       /\ \A a \in Slots : attempts[a].waiters <= 1

(***************************************************************************)
(* Properties of setPreferredLang                                          *)
(***************************************************************************)
\* setPreferredLang cancels while an update in another language is in flight
LangSwitch ==
  /\ lang.setter.pc = "check"
  /\ lang'.setter.pc = "kanji"
  /\ inProgressUpdate # 0
  /\ lang.task[inProgressUpdate] \in Langs \ {lang.setter.lang}

\* the update t reads its language
ReadsLang(t) == task[t].pc = "starting" /\ task'[t].pc # "starting"

\* the promise of the update t, which ran in the preferred language and was
\* not cancelled, resolves
ResolvesInPreferredLang(t) ==
  /\ task[t].outcome = "pending"
  /\ task'[t].outcome = "resolved"
  /\ ~task'[t].cancelled
  /\ lang.task[t] = lang.preferred

ForcedCancel == forcing' = forcing + 1

\* C21: a forced updateWithRetry cancels the existing invocation and starts
\* a new update only when the existing one is waiting on a retry timer with
\* the database idle: never when its db.update() is running, when it waits
\* to come online or when it has no retry interval.
C21_ForceOnlyWhenWaitingOnTimer ==
  [][ForcedCancel =>
       /\ retryStatus.setTimeoutHandle \in timers
       /\ retryStatus.onlineCallback = 0
       /\ retryStatus.retryIntervalMs # 0
       /\ updateState.state = "idle"
       /\ dbCurrent = 0]_vars

\* the client has cancelled, and no continuation of a forced call is pending
Cancelled == log.cancelled /\ forcing = 0

\* C22: after cancelUpdateWithRetry no retry timer, idle callback or online
\* listener is pending, the update in flight is cancelled, and no update is
\* started until updateWithRetry is called again.
C22_CancelClearsEveryTrigger ==
  Cancelled =>
    /\ timers = {} /\ idleCallbacks = {} /\ listeners = {}
    /\ ~retryStatus.present
    /\ log.step.updates = 0 /\ log.step.retries = 0
    /\ \A a \in Slots : attempts[a].pc = "running" => attempts[a].cancelled

\* C23: after cancelUpdateWithRetry neither onUpdateComplete nor
\* onUpdateError is called until updateWithRetry is called again, also when
\* the cancel interrupts an update in flight.
C23_NoCallbackAfterCancel ==
  Cancelled => log.step.completes = 0 /\ log.step.errors = 0

\* C24: after db.destroy() was called with a retry scheduled, the scheduled
\* retry is cancelled: no timer, idle callback or online listener of the
\* controller is pending, no db.update() is started and onUpdateComplete is
\* not called.
C24_DestroyCancelsRetry ==
  log.destroyed =>
    /\ timers = {} /\ idleCallbacks = {} /\ listeners = {}
    /\ ~retryStatus.present
    /\ log.step.updates = 0
    /\ log.step.completes = 0

\* a db.update() that was not cancelled has written a file to the store and
\* is between two series, or about to resolve
FileApplied ==
  \E a \in Slots :
    /\ attempts[a].pc = "running" /\ ~attempts[a].cancelled
    /\ attempts[a].applied /\ attempts[a].phase = "idle"

\* C25: when a file has been applied the retry interval and the retry count
\* are cleared, and a network error after it is retried after the initial
\* interval of 3 to 6 s with retryCount 0.
C25_ClearedWhenApplied ==
  /\ FileApplied =>
       retryStatus.retryIntervalMs = 0 /\ retryStatus.retryCount = -1
  /\ (NetworkFailure /\ log.step.applied) =>
       /\ log.step.lastError.delay \in InitialIntervals
       /\ log.step.lastError.retryCount = 0


\* the requests to open the database that the engine has not answered
OpensStarted == {n \in DOMAIN store.opens : store.opens[n].status = "pending"}

\* C26: concurrent open() calls share one open: at most one request to open
\* the database is with the engine at a time, and two calls of which one
\* was made while the other was in progress get the same handle.
C26_SingleOpenShared ==
  /\ Cardinality(OpensStarted) <= 1
  /\ \A c1, c2 \in StoreCalls :
       (/\ store.call[c1].op = "open" /\ store.call[c1].outcome = "resolved"
        /\ store.call[c2].op = "open" /\ store.call[c2].outcome = "resolved"
        /\ c1 \in store.call[c2].peers)
       => store.call[c1].result = store.call[c2].result

\* C27: destroy() called in any state of the store completes, with the store
\* in the state idle and no version records.
C27_DestroyFromAnyState ==
  \A c \in StoreCalls :
    (store.call[c].op = "destroy" /\ store.call[c].pc = "done") =>
      /\ store.call[c].outcome = "resolved"
      /\ store.call[c].endState = "idle"
      /\ ~store.call[c].endVersion

\* C28: when destroy() of the facade has returned, every update that was in
\* flight has terminated, and none of them writes to the store afterwards.
C28_DestroyEndsUpdates ==
  store.generation > 0 =>
    /\ store.inFlight = {}
    /\ tx.owner \notin store.inFlight

RECURSIVE PatchFiles(_, _)
\* the patch files from patch level `from` to patch level `to`, ascending
PatchFiles(from, to) ==
  IF from > to THEN <<>> ELSE <<File(from, "patch")>> \o PatchFiles(from + 1, to)

\* s is the beginning of t
IsPrefix(s, t) == Len(s) <= Len(t) /\ SubSeq(t, 1, Len(s)) = s

\* what download() has requested is the beginning of `files`, and all of
\* them when the stream is closed
RequestsAre(files) ==
  /\ IsPrefix(dl.requested, files)
  /\ dl.pc = "closed" => dl.requested = files

\* C29: with no current version, or a current minor that differs from
\* upstream's, download() requests the full file of the snapshot and then
\* the patch files snapshot+1 .. patch; otherwise it requests the patch
\* files current.patch+1 .. patch and no full file.
C29_FilesByMinor ==
  dl.pc # "none" =>
    IF dl.currentVersion = NullVersion
       \/ dl.currentVersion.minor # dl.versionInfo.minor
    THEN RequestsAre(<<File(dl.versionInfo.snapshot, "full")>>
                    \o PatchFiles(dl.versionInfo.snapshot + 1, dl.versionInfo.patch))
    ELSE RequestsAre(PatchFiles(dl.currentVersion.patch + 1, dl.versionInfo.patch))

\* C29 (amended): with no current version, or a current major or minor that
\* differs from upstream's, download() requests the full file of the
\* snapshot and then the patch files snapshot+1 .. patch; otherwise it
\* requests the patch files current.patch+1 .. patch and no full file.
C29_FilesByMajorMinor ==
  dl.pc # "none" =>
    IF dl.currentVersion = NullVersion
       \/ dl.currentVersion.major # dl.versionInfo.major
       \/ dl.currentVersion.minor # dl.versionInfo.minor
    THEN RequestsAre(<<File(dl.versionInfo.snapshot, "full")>>
                    \o PatchFiles(dl.versionInfo.snapshot + 1, dl.versionInfo.patch))
    ELSE RequestsAre(PatchFiles(dl.currentVersion.patch + 1, dl.versionInfo.patch))

\* a download that began with data of an older major version and the same
\* minor version is complete: the full file and a patch have been requested
C29_Witness ==
  /\ dl.pc = "closed"
  /\ dl.currentVersion # NullVersion
  /\ dl.currentVersion.major < dl.versionInfo.major
  /\ dl.currentVersion.minor = dl.versionInfo.minor
  /\ Len(dl.requested) >= 2
  /\ dl.requested[1].fileType = "full"

\* C30: when the current version is newer than the version of the manifest,
\* the download fails with DatabaseTooOld, no data file is requested and
\* the version record of the store stays as it is.
C30_TooOldBeforeAnyFile ==
  (/\ dl.pc \notin {"none", "start"}
   /\ dl.error # "VersionFileNotAccessible"
   /\ dl.currentVersion # NullVersion
   /\ compareVersions(dl.currentVersion, dl.versionInfo) > 0)
  => /\ dl.pc = "errored"
     /\ dl.error = "DatabaseTooOld"
     /\ dl.requested = <<>>
     /\ dl.stored = dl.currentVersion

\* a download has failed because the store holds a later patch of the
\* manifest's minor version
C30_Witness ==
  /\ dl.error = "DatabaseTooOld"
  /\ dl.currentVersion.major = dl.versionInfo.major
  /\ dl.currentVersion.minor = dl.versionInfo.minor
  /\ dl.currentVersion.patch > dl.versionInfo.patch

\* C31: update() holds records to delete only while it applies a partial
\* (patch) version: a deletion event read during a full snapshot is refused
\* with an error and never joins the pending deletions.
C31_DeletionOnlyInPatch ==
  \A t \in Tasks : applier[t].recordsToDelete # <<>> => applier[t].partialVersion

\* update() of update.ts returned to doUpdate without throwing: doUpdate then
\* finishes the series, or throws AbortError itself when it finds the update
\* cancelled
AppliedToEnd(t) ==
  task[t].pc = "done" /\ task[t].outcome \in {"resolved", "AbortError"}

\* C36: update() never returns normally with a version still open: when the
\* stream ends after a version event that no versionend has closed, the call
\* throws.
C36_NoReturnWithOpenVersion ==
  \A t \in Tasks : AppliedToEnd(t) => applier[t].currentVersion = NullVersion

\* C37: when a call of update() has ended, in whatever way, the store's
\* entry of inProgressUpdates is no longer that call's reader.
C37_RegistryClearedAtEnd ==
  \A t \in Tasks : task[t].pc = "done" => inProgressUpdates # t

\* C32: a lookup that has finished used a radical map and a char-to-radical
\* map built from the same radicals, and once updateDataVersion has run for
\* the committed radicals update neither cached map is built from the old
\* radicals.
C32_RadicalMapsOfOneVersion ==
  lookup.pc # "none" =>
    /\ lookup.pc = "done" => lookup.radicalMap = lookup.radicals
    /\ lookup.update = "done" =>
         /\ lookup.charToRadicalMap # 0
         /\ lookup.radicalsPromise # 0 => lookup.promises[lookup.radicalsPromise] # 0

\* C33: a series has a version record exactly when a full snapshot of it
\* has been applied to its table (since the table was last cleared).
C33_VersionRecordIffSnapshot ==
  \A s \in DataSeries : version[s] # NullVersion <=> s \in lastBulk.full

\* one of the record's var ids has the record's radical number
VariantSelected(record) ==
  \E i \in 1..Len(record.var) :
    /\ record.var[i].suffix # ""
    /\ parseInt(record.var[i].digits) = record.x

\* C34: in a result of getKanji rad.base is present exactly when a radical
\* variant was selected for the record, and then it is the base radical's
\* entry.
C34_BaseIffVariant ==
  lookup.pc = "returned" =>
    /\ lookup.result.hasBase <=> VariantSelected(lookup.record)
    /\ lookup.result.hasBase =>
         lookup.result.base = lookup.radicals[formatRadicalId(lookup.record.x)]

\* C34 (amended): in a result of getKanji rad.base is present exactly when
\* a radical variant was selected for the record and the radicals hold an
\* entry for the base radical, and then it is that entry.
C34_BaseIffVariantAndEntry ==
  lookup.pc = "returned" =>
    /\ lookup.result.hasBase <=>
         /\ VariantSelected(lookup.record)
         /\ formatRadicalId(lookup.record.x) \in DOMAIN lookup.radicals
    /\ lookup.result.hasBase =>
         lookup.result.base = lookup.radicals[formatRadicalId(lookup.record.x)]

\* a result with a base radical, for a record whose second var id is the
\* variant of its radical and whose variant entry differs from the base entry
C34_Witness ==
  /\ lookup.pc = "returned"
  /\ lookup.result.hasBase
  /\ Len(lookup.record.var) = 2
  /\ parseInt(lookup.record.var[1].digits) # lookup.record.x
  /\ lookup.result.rad.b # lookup.result.base

\* the hiragana form of a string
toHiragana(s) ==
  IF s.script = "katakana" THEN [s EXCEPT !.script = "hiragana"] ELSE s

\* the record matches the query on the kanji-spelling or reading index
ExactMatch(rec, search) == search \in rec.k \cup rec.r

\* the record has a reading that is the query in the other kana script
KanaEquivalent(rec, search) ==
  \E r \in rec.r : toHiragana(r) = toHiragana(search)

\* the rank of a listed record: exact matches first
NameRank(rec, search) == IF ExactMatch(rec, search) THEN 1 ELSE 2

\* C35: getNames lists the exact matches on the kanji-spelling and reading
\* indexes before the kana-equivalent matches, each record once and in
\* insertion order within a rank; the records with the query's reading in
\* the other kana script are listed, after the exact ones.
C35_ExactBeforeKanaEquivalent ==
  lookup.pc = "returned" =>
    LET names == lookup.names
        search == lookup.search
        result == lookup.result
    IN /\ {result[i] : i \in 1..Len(result)} =
            {id \in 1..MaxNames : \/ ExactMatch(names[id], search)
                                  \/ KanaEquivalent(names[id], search)}
       /\ \A i, j \in 1..Len(result) :
            i < j =>
              /\ result[i] # result[j]
              /\ NameRank(names[result[i]], search)
                   <= NameRank(names[result[j]], search)
              /\ /\ NameRank(names[result[i]], search) = 2
                 /\ NameRank(names[result[j]], search) = 2
                 => result[i] < result[j]

\* C38: the cleanup of a finished or cancelled update clears only its own
\* in-progress record and queue: an update that nobody cancelled stays the
\* facade's update in progress with its own queue until it ends, and it does
\* not end with AbortError.
C38_CleanupClearsOnlyOwn ==
  \A t \in Tasks :
    ~task[t].cancelled =>
      /\ task[t].pc \notin {"idle", "done"} =>
           inProgressUpdate = t /\ updateQueue = t
      /\ task[t].pc = "done" => task[t].outcome # "AbortError"

\* C39: the retry controller holds at most one pending retry trigger (retry
\* timer, idle callback or online listener) for the database, and holds one
\* only while a retry status is registered for it.
C39_OneTriggerWhileRegistered ==
  /\ Cardinality(timers) + Cardinality(idleCallbacks) + Cardinality(listeners) <= 1
  /\ (timers # {} \/ idleCallbacks # {} \/ listeners # {}) => retryStatus.present

\* C40: the store's state is 'open' exactly when it holds an engine handle,
\* and no call is rejected with the TypeError of a missing handle.
C40_OpenIffHandle ==
  /\ store.state = "open" <=> store.db # 0
  /\ \A c \in StoreCalls : store.call[c].error # "TypeError"

====
